---- MODULE Spec2Model ----
(***************************************************************************)
(* Model of scripts/security-scan.js (scanner v2.0.0): the threat          *)
(* classifier checkPackage with its helpers, the dependency merge and the  *)
(* scan pipeline that feeds every merged node to the classifier.           *)
(*                                                                         *)
(* Strings the code inspects character by character (package names,        *)
(* patterns, versions) are sequences of one-character strings; a JS array  *)
(* that is only ever searched with includes() is the set of its members;   *)
(* a JS object is a record whose domain holds the keys that are present.   *)
(***************************************************************************)
EXTENDS Integers, Sequences, FiniteSets, TLC

VARIABLES
    db,            \* the threat database document (loadCompromisedDb)
    config,        \* the configuration file object (loadConfig)
    ignoreList,    \* module-level list parsed from --ignore
    packageName,   \* classifier call: first argument
    version,       \* classifier call: second argument
    depInfo,       \* classifier call: fourth argument (Null when omitted)
    result,        \* value returned by the first checkPackage call
    result2,       \* value returned by a repeated checkPackage call
    webResult,     \* value returned by the web library's checkPackage on the same node
    cpc,           \* position of the classifier harness
    vVersion,      \* isVersionAffected call: version argument
    vAffected,     \* isVersionAffected call: affectedVersions argument
    vResult,       \* results of isVersionAffected on the version and its prefixed forms
    vpc,           \* position of the isVersionAffected harness
    args,          \* process.argv.slice(2), as the set of flags it holds
    options,       \* the options object built from args
    loadState,     \* the database file and package.json: found, parsed, fields supplied
    packageJson,   \* the parsed package.json: its dependency maps, each in key order
    lockArtifact,  \* the project's lock file on disk: Null, unreadable, or its decoded map
    directDependencies, \* the manifest's dependency maps merged into one object
    lockFile,      \* what loadLockFile() returns: Null or {type, packages, filename}
    allDependencies, \* Map name -> node, as its entries in insertion order
    scanStats,     \* the statistics object of scan()
    results,       \* the four severity buckets of scan()
    cursor,        \* index of the next entry of allDependencies to classify
    output,        \* what the scan printed: Null, the JSON document or the text summary
    effects,       \* what the scan did besides printing: the HTML report, package removal
    exitCode,      \* process exit code, -1 while running
    pc,            \* position of scan()
    lockText,      \* lock decoder call: the decoder and the content it is given
    decoded,       \* what the decoder call produced: a map, or an exception
    dpc,           \* position of the decoder harness
    mName,         \* matchesPattern call: packageName argument
    mPattern,      \* matchesPattern call: pattern argument
    mResult,       \* results of matchesPattern, isTrusted and isIgnored on the pair
    mpc,           \* position of the matchesPattern harness
    projects,      \* scan-all: the project directories to scan, in list order
    parallel,      \* scan-all: the --parallel flag
    children,      \* scan-all: what each spawned child scan does (exit code, stdout, stderr)
    delivered,     \* scan-all: the events of each child already handled
    promises,      \* scan-all: the promise scanProject returned for each project
    settled,       \* scan-all: the projects in the order their promises were resolved
    batchResults,  \* scan-all: the results array of main()
    totals,        \* scan-all: the totals object of main()
    batchExit,     \* scan-all: exit code of the orchestrator, -1 while running
    bpc            \* scan-all: position of main()

----------------------------------------------------------------------------
(* Strings *)

startsWith(s, prefix) ==
    /\ Len(prefix) <= Len(s)
    /\ SubSeq(s, 1, Len(prefix)) = prefix

endsWith(s, suffix) ==
    /\ Len(suffix) <= Len(s)
    /\ SubSeq(s, Len(s) - Len(suffix) + 1, Len(s)) = suffix

\* String.prototype.slice(0, -n)
sliceEnd(s, n) == IF Len(s) <= n THEN <<>> ELSE SubSeq(s, 1, Len(s) - n)

\* An absent JS value (null / undefined) and a test for a present key.
Null == [isNull |-> TRUE]
isNullish(v) == "isNull" \in DOMAIN v
has(obj, key) == key \in DOMAIN obj

----------------------------------------------------------------------------
(* Names, patterns and versions the inputs are drawn from *)

NameP      == <<"p">>                      \* "p"
NameScoped == <<"@", "s", "/", "p">>       \* "@s/p"
NameQ      == <<"q">>                      \* "q"
PatScope   == <<"@", "s", "/", "*">>       \* "@s/*"

Names == {NameP, NameScoped, NameQ}

V1      == <<"1">>                          \* "1"
V2      == <<"2">>                          \* "2"
VCaret1 == <<"^", "1">>                     \* "^1"
VRange  == <<">", "=", "1", " ", "<", "2">> \* ">=1 <2"

----------------------------------------------------------------------------
(* Pattern matching: matchesPattern, isTrusted, isIgnored *)

\* the wildcard compared without the slash after the scope
matchesPatternNoSlash(name, pattern) ==
    IF endsWith(pattern, <<"/", "*">>)
    THEN startsWith(name, sliceEnd(pattern, 2))
    ELSE name = pattern

matchesPattern(name, pattern) ==
    IF endsWith(pattern, <<"/", "*">>)
    THEN LET scope == sliceEnd(pattern, 2)
         IN  startsWith(name, scope \o <<"/">>)
    ELSE name = pattern

some(list, name) == \E i \in 1..Len(list) : matchesPattern(name, list[i])

\* a list entry that is not a string (a number, null, an object of the JSON
\* file) is written as the one-element sequence of this token, which no text is
NotAString == "not a string"

isString(pattern) == \A i \in 1..Len(pattern) : pattern[i] # NotAString

\* pattern.endsWith is not a function: the callback of some() raises a
\* TypeError at the first entry that is not a string, unless an earlier entry
\* already matched
someThrows(list, name) ==
    \E i \in 1..Len(list) :
        /\ ~isString(list[i])
        /\ \A j \in 1..(i - 1) : isString(list[j]) /\ ~matchesPattern(name, list[j])

isTrusted(name, d, cfg) ==
    LET trusted == d.trustedPackages.packages \o cfg.trustedPackages
    IN  some(trusted, name)

isIgnored(name, cfg) ==
    LET ignored == ignoreList \o cfg.ignore
    IN  some(ignored, name)

----------------------------------------------------------------------------
(* Version matching: isVersionAffected *)

RangePrefixChars == {"^", "~", ">", "=", "<"}

\* version.replace(/^[\^~>=<]*/g, ''): drop the longest leading run of prefix characters
RECURSIVE stripRangePrefix(_)
stripRangePrefix(v) ==
    IF v # <<>> /\ Head(v) \in RangePrefixChars
    THEN stripRangePrefix(Tail(v))
    ELSE v

\* a cleaning that drops one leading prefix character only
stripOnePrefixChar(v) ==
    IF v # <<>> /\ Head(v) \in RangePrefixChars THEN Tail(v) ELSE v

\* s.split(' ')[0]: the text before the first space
RECURSIVE firstToken(_)
firstToken(s) ==
    IF s = <<>> \/ Head(s) = " "
    THEN <<>>
    ELSE <<Head(s)>> \o firstToken(Tail(s))

cleanVersionOneChar(v) == firstToken(stripOnePrefixChar(v))

cleanVersion(v) == firstToken(stripRangePrefix(v))

isVersionAffectedEmptyIsNone(v, affectedVersions) ==
    IF isNullish(affectedVersions)
    THEN TRUE
    ELSE cleanVersion(v) \in affectedVersions.list

isVersionAffected(v, affectedVersions) ==
    IF isNullish(affectedVersions) \/ affectedVersions.list = {}
    THEN TRUE
    ELSE cleanVersion(v) \in affectedVersions.list

----------------------------------------------------------------------------
(* The classifier: checkPackage *)

\* campaign.affectedVersions?.[packageName]
affectedVersionsOf(campaign, name) ==
    IF has(campaign, "affectedVersions") /\ name \in DOMAIN campaign.affectedVersions
    THEN [list |-> campaign.affectedVersions[name]]
    ELSE Null

\* campaign.name || campaignId
campaignType(campaign) ==
    IF has(campaign, "name") THEN campaign.name ELSE campaign.id

\* protestware.<tier>.details?.[packageName] || '<tier default>'
tierDetails(tier, name, default) ==
    IF name \in DOMAIN tier.details THEN tier.details[name] ELSE default

baseIssue(name, ver, info) ==
    [ package         |-> name,
      version         |-> ver,
      isDirect        |-> IF isNullish(info) THEN TRUE ELSE info.isDirect,
      isTransitive    |-> IF isNullish(info) THEN FALSE ELSE info.isTransitive,
      dependencyChain |-> IF isNullish(info) THEN <<>> ELSE info.dependencyChain ]

\* the outcome of one campaign for a name it lists in campaign.packages
campaignPackagesIssue(campaign, name, ver, info) ==
    LET affectedVersions == affectedVersionsOf(campaign, name)
    IN  IF ~isNullish(affectedVersions) /\ ~isVersionAffected(ver, affectedVersions)
        THEN [ severity         |-> "low",
               type             |-> campaignType(campaign),
               campaign         |-> campaign.id,
               reason           |-> "Package was part of attack campaign but your version appears safe",
               action           |-> "VERIFY - Ensure you are on a safe version",
               affectedVersions |-> affectedVersions,
               safeVersion      |-> TRUE ] @@ baseIssue(name, ver, info)
        ELSE [ severity         |-> IF has(campaign, "severity") THEN campaign.severity ELSE "high",
               type             |-> campaignType(campaign),
               campaign         |-> campaign.id,
               reason           |-> IF has(campaign, "description")
                                    THEN campaign.description
                                    ELSE "Part of known attack campaign",
               action           |-> "CHECK VERSION AND UPDATE",
               affectedVersions |-> affectedVersions ] @@ baseIssue(name, ver, info)

\* the issue of the keyed affectedVersions lookup (built without baseIssue)
campaignVersionIssue(campaign, name, ver) ==
    [ package          |-> name,
      version          |-> ver,
      severity         |-> "critical",
      type             |-> campaignType(campaign),
      campaign         |-> campaign.id,
      reason           |-> "This specific version was compromised in the attack",
      action           |-> "UPDATE TO SAFE VERSION IMMEDIATELY",
      affectedVersions |-> affectedVersionsOf(campaign, name) ]

\* for (const [campaignId, campaign] of Object.entries(campaigns)), from index i,
\* without the keyed affectedVersions lookup
RECURSIVE checkCampaignsPackagesOnly(_, _, _, _, _)
checkCampaignsPackagesOnly(campaigns, i, name, ver, info) ==
    IF i > Len(campaigns)
    THEN Null
    ELSE IF name \in campaigns[i].packages
         THEN campaignPackagesIssue(campaigns[i], name, ver, info)
         ELSE checkCampaignsPackagesOnly(campaigns, i + 1, name, ver, info)

\* the same loop run from the last campaign to the first
RECURSIVE checkCampaignsLastWins(_, _, _, _, _)
checkCampaignsLastWins(campaigns, i, name, ver, info) ==
    LET j == Len(campaigns) + 1 - i
    IN  IF i > Len(campaigns)
        THEN Null
        ELSE LET campaign == campaigns[j]
                 affectedVersions == affectedVersionsOf(campaign, name)
             IN  IF name \in campaign.packages
                 THEN campaignPackagesIssue(campaign, name, ver, info)
                 ELSE IF ~isNullish(affectedVersions) /\ isVersionAffected(ver, affectedVersions)
                      THEN campaignVersionIssue(campaign, name, ver)
                      ELSE checkCampaignsLastWins(campaigns, i + 1, name, ver, info)

\* for (const [campaignId, campaign] of Object.entries(campaigns)), from index i
RECURSIVE checkCampaigns(_, _, _, _, _)
checkCampaigns(campaigns, i, name, ver, info) ==
    IF i > Len(campaigns)
    THEN Null
    ELSE LET campaign == campaigns[i]
             affectedVersions == affectedVersionsOf(campaign, name)
         IN  IF name \in campaign.packages
             THEN campaignPackagesIssue(campaign, name, ver, info)
             ELSE IF ~isNullish(affectedVersions) /\ isVersionAffected(ver, affectedVersions)
                  THEN campaignVersionIssue(campaign, name, ver)
                  ELSE checkCampaigns(campaigns, i + 1, name, ver, info)

\* the four knownMalicious lists; Null when the name is in none
checkKnownMalicious(name, base, malicious) ==
    IF name \in malicious.confirmed
    THEN [ severity |-> "critical",
           type     |-> "Confirmed Malicious",
           reason   |-> "This package has been confirmed as malicious",
           action   |-> "REMOVE IMMEDIATELY" ] @@ base
    ELSE IF name \in malicious.typosquatting
    THEN [ severity |-> "critical",
           type     |-> "Typosquatting",
           reason   |-> "This package name is a typosquatting variant of a popular package",
           action   |-> "REMOVE IMMEDIATELY - Check you have the correct package name" ] @@ base
    ELSE IF name \in malicious.credentialTheft
    THEN [ severity |-> "critical",
           type     |-> "Credential Theft",
           reason   |-> "This package has been found to steal credentials",
           action   |-> "REMOVE IMMEDIATELY - Rotate all credentials" ] @@ base
    ELSE IF name \in malicious.cryptoMalware
    THEN [ severity |-> "critical",
           type     |-> "Crypto Malware",
           reason   |-> "This package contains cryptocurrency mining or wallet-stealing malware",
           action   |-> "REMOVE IMMEDIATELY - Check for unauthorized transactions" ] @@ base
    ELSE Null

\* the tiers tested low, medium, high
checkProtestwareLowFirst(name, base, protestware) ==
    IF name \in protestware.low.packages
    THEN [ severity |-> "low",
           type     |-> "Protestware (Message)",
           reason   |-> tierDetails(protestware.low, name, "Protestware with political message"),
           action   |-> "OPTIONAL - No malicious behavior, contains political message only" ] @@ base
    ELSE IF name \in protestware.medium.packages
    THEN [ severity |-> "medium",
           type     |-> "Protestware (DoS)",
           reason   |-> tierDetails(protestware.medium, name, "DoS protestware"),
           action   |-> "REMOVE - Causes application hang or crash. Use alternative package." ] @@ base
    ELSE IF name \in protestware.high.packages
    THEN [ severity |-> "high",
           type     |-> "Protestware (Destructive)",
           reason   |-> tierDetails(protestware.high, name, "Destructive protestware"),
           action   |-> "REMOVE - Can delete or corrupt files on affected systems" ] @@ base
    ELSE Null

\* the three protestware tiers, high then medium then low; Null when the name is in none
checkProtestware(name, base, protestware) ==
    IF name \in protestware.high.packages
    THEN [ severity |-> "high",
           type     |-> "Protestware (Destructive)",
           reason   |-> tierDetails(protestware.high, name, "Destructive protestware"),
           action   |-> "REMOVE - Can delete or corrupt files on affected systems" ] @@ base
    ELSE IF name \in protestware.medium.packages
    THEN [ severity |-> "medium",
           type     |-> "Protestware (DoS)",
           reason   |-> tierDetails(protestware.medium, name, "DoS protestware"),
           action   |-> "REMOVE - Causes application hang or crash. Use alternative package." ] @@ base
    ELSE IF name \in protestware.low.packages
    THEN [ severity |-> "low",
           type     |-> "Protestware (Message)",
           reason   |-> tierDetails(protestware.low, name, "Protestware with political message"),
           action   |-> "OPTIONAL - No malicious behavior, contains political message only" ] @@ base
    ELSE Null

\* the campaign loop run before the lists
checkThreatsCampaignsFirst(name, ver, d, info) ==
    LET malicious == d.knownMalicious
        base      == baseIssue(name, ver, info)
        byCampaign == checkCampaigns(d.campaigns, 1, name, ver, info)
        byList    == checkKnownMalicious(name, base, malicious)
    IN  IF ~isNullish(byCampaign) THEN byCampaign
        ELSE IF ~isNullish(byList) THEN byList
        ELSE checkProtestware(name, base, malicious.protestware)

\* checkPackage after the ignore and trust tests: lists, tiers, then campaigns
checkThreats(name, ver, d, info) ==
    LET malicious == d.knownMalicious
        base      == baseIssue(name, ver, info)
        byList    == checkKnownMalicious(name, base, malicious)
        byTier    == checkProtestware(name, base, malicious.protestware)
    IN  IF ~isNullish(byList) THEN byList
        ELSE IF ~isNullish(byTier) THEN byTier
        ELSE checkCampaigns(d.campaigns, 1, name, ver, info)

\* the trust test made only after the threat rules found nothing
checkPackageThreatsBeforeTrust(name, ver, d, info, cfg) ==
    IF isIgnored(name, cfg) THEN [ignored |-> TRUE]
    ELSE LET threat == checkThreats(name, ver, d, info)
         IN  IF ~isNullish(threat) THEN threat
             ELSE IF isTrusted(name, d, cfg) THEN [trusted |-> TRUE]
             ELSE Null

\* the trust test made before the ignore test
checkPackageTrustBeforeIgnore(name, ver, d, info, cfg) ==
    IF isTrusted(name, d, cfg) THEN [trusted |-> TRUE]
    ELSE IF isIgnored(name, cfg) THEN [ignored |-> TRUE]
    ELSE checkThreats(name, ver, d, info)

checkPackage(name, ver, d, info, cfg) ==
    IF isIgnored(name, cfg) THEN [ignored |-> TRUE]
    ELSE IF isTrusted(name, d, cfg) THEN [trusted |-> TRUE]
    ELSE checkThreats(name, ver, d, info)

\* web library: version.replace(/^[\^~]/, '')
cleanVersionWeb(v) == IF v # <<>> /\ Head(v) \in {"^", "~"} THEN Tail(v) ELSE v

\* web library: the outcome of one campaign for a name it lists
campaignIssueWeb(campaign, name, ver, info) ==
    LET affectedVersions == affectedVersionsOf(campaign, name)
        reason == IF has(campaign, "description")
                  THEN campaign.description
                  ELSE "Part of known attack campaign"
    IN  IF ~isNullish(affectedVersions) /\ cleanVersionWeb(ver) \notin affectedVersions.list
        THEN [ severity         |-> "medium",
               type             |-> campaignType(campaign),
               campaign         |-> campaign.id,
               reason           |-> reason,
               action           |-> "VERIFY VERSION - Some versions of this package are compromised",
               affectedVersions |-> affectedVersions ] @@ baseIssue(name, ver, info)
        ELSE [ severity         |-> IF has(campaign, "severity") THEN campaign.severity ELSE "high",
               type             |-> campaignType(campaign),
               campaign         |-> campaign.id,
               reason           |-> reason,
               action           |-> "CHECK VERSION AND UPDATE",
               affectedVersions |-> affectedVersions ] @@ baseIssue(name, ver, info)

\* web library: the campaign loop, from index i
RECURSIVE checkCampaignsWeb(_, _, _, _, _)
checkCampaignsWeb(campaigns, i, name, ver, info) ==
    IF i > Len(campaigns)
    THEN Null
    ELSE IF name \in campaigns[i].packages
         THEN campaignIssueWeb(campaigns[i], name, ver, info)
         ELSE checkCampaignsWeb(campaigns, i + 1, name, ver, info)

\* web library: isTrusted reads the database's patterns only
isTrustedWeb(name, d) == some(d.trustedPackages.packages, name)

\* web library: checkPackage; the node's isDirect, isTransitive and chain are
\* passed as arguments
checkPackageWeb(name, ver, d, info) ==
    IF isTrustedWeb(name, d)
    THEN Null
    ELSE LET byList == checkKnownMalicious(name, baseIssue(name, ver, info), d.knownMalicious)
         IN  IF ~isNullish(byList)
             THEN byList
             ELSE checkCampaignsWeb(d.campaigns, 1, name, ver, info)

\* the three shapes of a checkPackage return value, as scan() tells them apart
isIgnoredResult(r) == has(r, "ignored")
isTrustedResult(r) == has(r, "trusted")
isIssue(r) == ~isNullish(r) /\ ~isIgnoredResult(r) /\ ~isTrustedResult(r)

----------------------------------------------------------------------------
(* Inputs of the classifier: databases, configurations, nodes *)

MaxCategories == 2    \* a listed name is in at most this many lists and tiers
MaxCampaigns  == 2    \* campaigns in a database

SeqsUpTo(S, n) == UNION { [1..k -> S] : k \in 0..n }

Categories == { "confirmed", "typosquatting", "credentialTheft", "cryptoMalware",
                "protestwareHigh", "protestwareMedium", "protestwareLow" }

\* the names the lists and tiers of a database hold, and the tier details
Listed == {NameP, NameScoped}
Details == (NameP :> "per-package detail")

listOf(cats, c) == IF c \in cats THEN Listed ELSE {}

campaignOfKind(kind, id) ==
    CASE kind = "all"      -> [ id |-> id, packages |-> Listed ]
      [] kind = "listed"   -> [ id |-> id, name |-> "Campaign One", severity |-> "medium",
                                description |-> "Worm campaign",
                                packages |-> Listed,
                                affectedVersions |-> (NameP :> {V1}) ]
      [] kind = "empty"    -> [ id |-> id, name |-> "Campaign Two", severity |-> "critical",
                                packages |-> {NameP, NameQ},
                                affectedVersions |-> (NameP :> {}) @@ (NameQ :> {V1, V2}) ]
      [] kind = "keyed"    -> [ id |-> id, name |-> "Campaign Three", severity |-> "medium",
                                packages |-> {},
                                affectedVersions |-> (NameP :> {V1}) @@ (NameQ :> {V2}) ]
      [] kind = "keyedAll" -> [ id |-> id, severity |-> "low",
                                packages |-> {NameScoped},
                                affectedVersions |-> (NameP :> {}) ]
      [] kind = "other"    -> [ id |-> id, name |-> "Campaign Four",
                                packages |-> {NameScoped},
                                affectedVersions |-> (NameP :> {V2}) ]

CampaignKinds == {"all", "listed", "empty", "keyed", "keyedAll", "other"}
CampaignIdAt == <<"c1", "c2", "c3", "c4">>

campaignsOf(kinds) == [ i \in 1..Len(kinds) |-> campaignOfKind(kinds[i], CampaignIdAt[i]) ]

makeDb(cats, trusted, campaigns) ==
    [ trustedPackages |-> [ packages |-> trusted ],
      knownMalicious  |->
        [ confirmed       |-> listOf(cats, "confirmed"),
          typosquatting   |-> listOf(cats, "typosquatting"),
          credentialTheft |-> listOf(cats, "credentialTheft"),
          cryptoMalware   |-> listOf(cats, "cryptoMalware"),
          protestware     |->
            [ high   |-> [ packages |-> listOf(cats, "protestwareHigh"),   details |-> Details ],
              medium |-> [ packages |-> listOf(cats, "protestwareMedium"), details |-> Details ],
              low    |-> [ packages |-> listOf(cats, "protestwareLow"),    details |-> Details ] ] ],
      campaigns       |-> campaigns ]

\* databases that exercise the lists and tiers, with at most one campaign
ListDatabases ==
    { makeDb(cats, trusted, campaignsOf(kinds)) :
        cats \in { c \in SUBSET Categories : Cardinality(c) <= MaxCategories },
        trusted \in { <<>>, <<PatScope>>, <<NameP>> },
        kinds \in { <<>>, <<"all">>, <<"keyed">> } }

\* databases that exercise the campaigns, with empty lists and tiers
CampaignDatabases ==
    { makeDb({}, <<>>, campaignsOf(kinds)) : kinds \in SeqsUpTo(CampaignKinds, MaxCampaigns) }

Configs ==
    [ ignore : { <<>>, <<NameScoped>> }, trustedPackages : { <<>>, <<NameQ>> } ]

IgnoreLists == { <<>>, <<PatScope>>, <<NameP>> }

DepInfos ==
    { Null,
      [ version |-> V1, isDirect |-> FALSE, isTransitive |-> TRUE, dependencyChain |-> <<NameQ>> ] }

----------------------------------------------------------------------------
(* Specification of the classifier: checkPackage applied to drawn inputs *)

VersionIdle ==
    /\ vVersion = <<>>
    /\ vAffected = Null
    /\ vResult = Null
    /\ vpc = "idle"

DecodeIdle ==
    /\ lockText = Null
    /\ decoded = Null
    /\ dpc = "idle"

PatternIdle ==
    /\ mName = <<>>
    /\ mPattern = <<>>
    /\ mResult = Null
    /\ mpc = "idle"

BatchIdle ==
    /\ projects = <<>>
    /\ parallel = FALSE
    /\ children = <<>>
    /\ delivered = <<>>
    /\ promises = <<>>
    /\ settled = <<>>
    /\ batchResults = <<>>
    /\ totals = Null
    /\ batchExit = -1
    /\ bpc = "idle"

ScanIdle ==
    /\ args = {}
    /\ options = Null
    /\ loadState = Null
    /\ packageJson = Null
    /\ lockArtifact = Null
    /\ effects = Null
    /\ directDependencies = <<>>
    /\ lockFile = Null
    /\ allDependencies = <<>>
    /\ scanStats = Null
    /\ results = Null
    /\ cursor = 0
    /\ output = Null
    /\ exitCode = -1
    /\ pc = "idle"

classifyVars == <<packageName, version, depInfo, result, result2, webResult, cpc>>
versionVars == <<vVersion, vAffected, vResult, vpc>>
decodeVars == <<lockText, decoded, dpc>>
patternVars == <<mName, mPattern, mResult, mpc>>
batchVars == <<projects, parallel, children, delivered, promises, settled, batchResults,
               totals, batchExit, bpc>>
scanVars == <<args, options, loadState, packageJson, lockArtifact, directDependencies, lockFile,
              allDependencies, scanStats, results, cursor, output, effects, exitCode, pc>>

InitClassify ==
    /\ cpc = "ready"
    /\ result = Null
    /\ result2 = Null
    /\ webResult = Null
    /\ packageName \in Names
    /\ depInfo \in DepInfos
    /\ \/ /\ db \in ListDatabases
          /\ config \in Configs
          /\ ignoreList \in IgnoreLists
          /\ version \in {V1, VCaret1}
       \/ /\ db \in CampaignDatabases
          /\ config = [ ignore |-> <<>>, trustedPackages |-> <<>> ]
          /\ ignoreList = <<>>
          /\ version \in {V1, V2, VCaret1, VRange}
    /\ VersionIdle
    /\ ScanIdle
    /\ DecodeIdle
    /\ PatternIdle
    /\ BatchIdle

\* a first call of checkPackage on the node, by the command line and by the
\* web library
Classify ==
    /\ cpc = "ready"
    /\ result' = checkPackage(packageName, version, db, depInfo, config)
    /\ webResult' = checkPackageWeb(packageName, version, db, depInfo)
    /\ cpc' = "checked"
    /\ UNCHANGED <<db, config, ignoreList, packageName, version, depInfo, result2>>
    /\ UNCHANGED <<versionVars, scanVars, decodeVars, patternVars, batchVars>>

\* a repeated call of checkPackage on the same node and database
ClassifyAgain ==
    /\ cpc = "checked"
    /\ result2' = checkPackage(packageName, version, db, depInfo, config)
    /\ cpc' = "rechecked"
    /\ UNCHANGED <<db, config, ignoreList, packageName, version, depInfo, result, webResult>>
    /\ UNCHANGED <<versionVars, scanVars, decodeVars, patternVars, batchVars>>

vars == <<db, config, ignoreList, classifyVars, versionVars, scanVars, decodeVars, patternVars, batchVars>>

NextClassify == Classify \/ ClassifyAgain

SpecClassify == InitClassify /\ [][NextClassify]_vars

----------------------------------------------------------------------------
(* Vocabulary of the classifier properties, read off the inputs *)

\* a pattern is an exact name, or a namespace followed by "/*" covering every
\* name that begins with the namespace and the slash
PatternCovers(pattern, name) ==
    \/ pattern = name
    \/ /\ Len(pattern) >= 2
       /\ pattern[Len(pattern) - 1] = "/"
       /\ pattern[Len(pattern)] = "*"
       /\ Len(name) >= Len(pattern) - 1
       /\ \A i \in 1..(Len(pattern) - 1) : name[i] = pattern[i]

CoveredBy(list, name) == \E i \in 1..Len(list) : PatternCovers(list[i], name)

NodeIgnored ==
    CoveredBy(ignoreList, packageName) \/ CoveredBy(config.ignore, packageName)

NodeTrusted ==
    \/ CoveredBy(db.trustedPackages.packages, packageName)
    \/ CoveredBy(config.trustedPackages, packageName)

RuleOrder == << "confirmed", "typosquatting", "credentialTheft", "cryptoMalware",
                "protestwareHigh", "protestwareMedium", "protestwareLow" >>

RuleMembers(c) ==
    CASE c = "confirmed"         -> db.knownMalicious.confirmed
      [] c = "typosquatting"     -> db.knownMalicious.typosquatting
      [] c = "credentialTheft"   -> db.knownMalicious.credentialTheft
      [] c = "cryptoMalware"     -> db.knownMalicious.cryptoMalware
      [] c = "protestwareHigh"   -> db.knownMalicious.protestware.high.packages
      [] c = "protestwareMedium" -> db.knownMalicious.protestware.medium.packages
      [] c = "protestwareLow"    -> db.knownMalicious.protestware.low.packages

RuleSeverity(c) ==
    CASE c = "protestwareHigh"   -> "high"
      [] c = "protestwareMedium" -> "medium"
      [] c = "protestwareLow"    -> "low"
      [] OTHER                   -> "critical"

RuleType(c) ==
    CASE c = "confirmed"         -> "Confirmed Malicious"
      [] c = "typosquatting"     -> "Typosquatting"
      [] c = "credentialTheft"   -> "Credential Theft"
      [] c = "cryptoMalware"     -> "Crypto Malware"
      [] c = "protestwareHigh"   -> "Protestware (Destructive)"
      [] c = "protestwareMedium" -> "Protestware (DoS)"
      [] c = "protestwareLow"    -> "Protestware (Message)"

RuleDefaultReason(c) ==
    CASE c = "protestwareHigh"   -> "Destructive protestware"
      [] c = "protestwareMedium" -> "DoS protestware"
      [] c = "protestwareLow"    -> "Protestware with political message"

MatchingRules == { k \in 1..Len(RuleOrder) : packageName \in RuleMembers(RuleOrder[k]) }

\* index in RuleOrder of the first list or tier that holds the node's name; 0 when none does
FirstRule ==
    IF MatchingRules = {} THEN 0
    ELSE CHOOSE k \in MatchingRules : \A j \in MatchingRules : k <= j

\* the node passes the ignore and trust tests and is in no list and no tier
ReachesCampaignRule == ~NodeIgnored /\ ~NodeTrusted /\ FirstRule = 0

Min(S) == CHOOSE k \in S : \A j \in S : k <= j

HasEntry(c) == has(c, "affectedVersions") /\ packageName \in DOMAIN c.affectedVersions
EntryOf(c) == c.affectedVersions[packageName]
DeclaredSeverity(c) == IF has(c, "severity") THEN c.severity ELSE "high"

ListingCampaigns == { i \in 1..Len(db.campaigns) : packageName \in db.campaigns[i].packages }

\* the campaign's affectedVersions has an entry for the name that is empty or
\* lists the cleaned version
KeyedMatch(c) ==
    HasEntry(c) /\ (EntryOf(c) = {} \/ cleanVersion(version) \in EntryOf(c))

KeyedCampaigns == { i \in 1..Len(db.campaigns) : KeyedMatch(db.campaigns[i]) }

CampaignWithId(id) == CHOOSE c \in { db.campaigns[i] : i \in 1..Len(db.campaigns) } : c.id = id

\* the returned Issue is attributed to a campaign that lists the name in packages
AttributedToListingCampaign ==
    /\ cpc # "ready"
    /\ isIssue(result)
    /\ has(result, "campaign")
    /\ packageName \in CampaignWithId(result.campaign).packages

SafeOutcome(r) ==
    /\ r.severity = "low"
    /\ has(r, "safeVersion") /\ r.safeVersion
    /\ r.action = "VERIFY - Ensure you are on a safe version"

DeclaredOutcome(r, c) ==
    /\ r.severity = DeclaredSeverity(c)
    /\ ~has(r, "safeVersion")

\* the severity the packages rule gives for campaign c
VersionRuleSeverity(c) ==
    IF HasEntry(c) /\ EntryOf(c) # {} /\ cleanVersion(version) \notin EntryOf(c)
    THEN "low"
    ELSE DeclaredSeverity(c)

----------------------------------------------------------------------------
(* Properties of the classifier, checked under SpecClassify *)

\* C1 (trust precedence): a name that matches a trusted pattern and no ignore
\* pattern is classified Trusted, whatever lists, tiers or campaigns hold it.
TrustPrecedence ==
    (cpc # "ready" /\ NodeTrusted /\ ~NodeIgnored) => result = [trusted |-> TRUE]

TrustPrecedenceWitness ==
    /\ cpc = "checked"
    /\ packageName = NameScoped
    /\ NodeTrusted /\ ~NodeIgnored
    /\ packageName \in db.knownMalicious.confirmed
    /\ ListingCampaigns # {}
    /\ result = [trusted |-> TRUE]

\* C2 (ignore precedence): a name that matches an ignore pattern is classified
\* Ignored, also when it is trusted or held by a list or campaign.
IgnorePrecedence ==
    (cpc # "ready" /\ NodeIgnored) => result = [ignored |-> TRUE]

IgnorePrecedenceWitness ==
    /\ cpc = "checked"
    /\ NodeIgnored /\ NodeTrusted
    /\ packageName \in db.knownMalicious.confirmed
    /\ result = [ignored |-> TRUE]

FixedRulePrecedence ==
    (cpc # "ready" /\ ~NodeIgnored /\ ~NodeTrusted) =>
        IF FirstRule > 0
        THEN LET c == RuleOrder[FirstRule]
             IN  /\ isIssue(result)
                 /\ result.severity = RuleSeverity(c)
                 /\ result.type = RuleType(c)
                 /\ ~has(result, "campaign")
                 /\ FirstRule >= 5 =>
                        result.reason = IF packageName \in DOMAIN Details
                                        THEN Details[packageName]
                                        ELSE RuleDefaultReason(c)
        ELSE isNullish(result) \/ (isIssue(result) /\ has(result, "campaign"))

FixedRulePrecedenceWitness ==
    /\ cpc = "checked"
    /\ ~NodeIgnored /\ ~NodeTrusted
    /\ Cardinality(MatchingRules) >= 2
    /\ FirstRule = 5
    /\ Len(db.campaigns) > 0
    /\ result.severity = "high"

\* C5 as stated (campaign version split): with an entry for the name in
\* C.affectedVersions, whatever set it holds, a cleaned version outside it gives the
\* low safe-version outcome, and every other case gives the declared severity.
CampaignVersionSplitAsStated ==
    AttributedToListingCampaign =>
        LET c == CampaignWithId(result.campaign)
        IN  IF HasEntry(c) /\ cleanVersion(version) \notin EntryOf(c)
            THEN SafeOutcome(result)
            ELSE DeclaredOutcome(result, c)

\* C5 (campaign version split, amended): the low safe-version outcome needs a
\* non-empty entry that does not list the cleaned version; no entry, an empty
\* entry, or a listed version give the declared severity (high when undeclared).
CampaignVersionSplit ==
    AttributedToListingCampaign =>
        LET c == CampaignWithId(result.campaign)
        IN  IF HasEntry(c) /\ EntryOf(c) # {} /\ cleanVersion(version) \notin EntryOf(c)
            THEN SafeOutcome(result)
            ELSE DeclaredOutcome(result, c)

CampaignVersionSplitWitness ==
    /\ AttributedToListingCampaign
    /\ HasEntry(CampaignWithId(result.campaign))
    /\ EntryOf(CampaignWithId(result.campaign)) = {V1}
    /\ version = V2
    /\ SafeOutcome(result)

FirstCampaignWinsAsStated ==
    (cpc # "ready" /\ ReachesCampaignRule /\ ListingCampaigns # {}) =>
        LET c == db.campaigns[Min(ListingCampaigns)]
        IN  /\ isIssue(result)
            /\ result.campaign = c.id
            /\ result.severity = VersionRuleSeverity(c)

\* C7 (amended): the Issue is attributed to the first campaign in iteration order
\* that lists the name in packages or has an affectedVersions entry for it that is
\* empty or lists the cleaned version; the severity is the version rule's for the
\* former and critical for the latter.
FirstCampaignWins ==
    (cpc # "ready" /\ ReachesCampaignRule /\ ListingCampaigns \cup KeyedCampaigns # {}) =>
        LET first == Min(ListingCampaigns \cup KeyedCampaigns)
            c == db.campaigns[first]
        IN  /\ isIssue(result)
            /\ result.campaign = c.id
            /\ result.severity = IF first \in ListingCampaigns
                                 THEN VersionRuleSeverity(c)
                                 ELSE "critical"

FirstCampaignWinsWitness ==
    /\ cpc = "checked"
    /\ ReachesCampaignRule
    /\ Cardinality(ListingCampaigns) >= 2
    /\ Min(ListingCampaigns) = 1
    /\ isIssue(result)
    /\ result.campaign = db.campaigns[1].id
    /\ result.severity # VersionRuleSeverity(db.campaigns[2])

----------------------------------------------------------------------------
(* The web library's classifier against the command line's, checked under    *)
(* SpecClassify                                                              *)

\* the node was classified with an empty ignore list and no trusted patterns
\* from the configuration
NoCallerLists ==
    /\ cpc \in {"checked", "rechecked"}
    /\ ignoreList = <<>>
    /\ config.ignore = <<>>
    /\ config.trustedPackages = <<>>

WebIssue == ~isNullish(webResult)

InMaliciousList ==
    \E list \in {"confirmed", "typosquatting", "credentialTheft", "cryptoMalware"} :
        packageName \in db.knownMalicious[list]

InProtestwareTier ==
    \E tier \in {"high", "medium", "low"} :
        packageName \in db.knownMalicious.protestware[tier].packages

\* C30 (web and command-line classifiers agree): for every package name,
\* version and database, with an empty ignore list and no trusted patterns
\* from the configuration, the web library's checkPackage and the command
\* line's checkPackage agree on whether an issue is produced and on its
\* severity.
WebAgreesWithCli ==
    NoCallerLists =>
        /\ isIssue(result) <=> WebIssue
        /\ (isIssue(result) /\ WebIssue) => result.severity = webResult.severity

\* where the two do agree: on the names the database trusts and on the names
\* of the four knownMalicious lists
WebAgreesOnLists ==
    (NoCallerLists /\ (InMaliciousList \/ isTrustedWeb(packageName, db))) =>
        /\ isIssue(result) <=> WebIssue
        /\ (isIssue(result) /\ WebIssue) => result.severity = webResult.severity

\* a name of a protestware tier that no list and no campaign names: an issue
\* for the command line, none for the web library
WebAgreesWithCliWitness ==
    /\ NoCallerLists
    /\ InProtestwareTier
    /\ ~InMaliciousList
    /\ db.campaigns = <<>>
    /\ isIssue(result)
    /\ ~WebIssue

\* a listed name at a version outside the campaign's affected versions: low
\* for the command line, medium for the web library
WebSafeVersionMedium ==
    /\ NoCallerLists
    /\ isIssue(result)
    /\ has(result, "safeVersion")
    /\ result.severity = "low"
    /\ WebIssue
    /\ webResult.severity = "medium"

----------------------------------------------------------------------------
(* Specification of the version test: isVersionAffected applied to drawn inputs *)

MaxVersionLen == 3    \* characters in a drawn version string

VersionAlphabet == {"^", "~", ">", "=", "<", " ", "1", "2"}

\* the value of campaign.affectedVersions?.[name]: undefined or an array
AffectedArguments ==
    { Null, [list |-> {}], [list |-> {V1}], [list |-> {V1, V2}], [list |-> {<<"1", "2">>}] }

DatabaseIdle ==
    /\ db = Null
    /\ config = Null
    /\ ignoreList = <<>>

ClassifyIdle ==
    /\ packageName = <<>>
    /\ version = <<>>
    /\ depInfo = Null
    /\ result = Null
    /\ result2 = Null
    /\ webResult = Null
    /\ cpc = "idle"

InitVersion ==
    /\ vVersion \in SeqsUpTo(VersionAlphabet, MaxVersionLen)
    /\ vAffected \in AffectedArguments
    /\ vResult = Null
    /\ vpc = "ready"
    /\ DatabaseIdle
    /\ ClassifyIdle
    /\ ScanIdle
    /\ DecodeIdle
    /\ PatternIdle
    /\ BatchIdle

\* isVersionAffected on the version as given and with a range prefix put before it
CheckVersion ==
    /\ vpc = "ready"
    /\ vResult' = [ plain |-> isVersionAffected(vVersion, vAffected),
                    caret |-> isVersionAffected(<<"^">> \o vVersion, vAffected),
                    tilde |-> isVersionAffected(<<"~">> \o vVersion, vAffected),
                    gte   |-> isVersionAffected(<<">", "=">> \o vVersion, vAffected) ]
    /\ vpc' = "done"
    /\ UNCHANGED <<vVersion, vAffected>>
    /\ UNCHANGED <<db, config, ignoreList, classifyVars, scanVars, decodeVars, patternVars, batchVars>>

NextVersion == CheckVersion

SpecVersion == InitVersion /\ [][NextVersion]_vars

\* the version without its longest leading run of range-prefix characters
PrefixRun(v) ==
    LET runs == { k \in 0..Len(v) : \A i \in 1..k : v[i] \in {"^", "~", ">", "=", "<"} }
    IN  CHOOSE k \in runs : \A j \in runs : j <= k

StrippedOfPrefix(v) == SubSeq(v, PrefixRun(v) + 1, Len(v))

\* the text before the first space
BeforeFirstSpace(s) ==
    LET stops == { k \in 1..(Len(s) + 1) : k = Len(s) + 1 \/ s[k] = " " }
    IN  SubSeq(s, 1, Min(stops) - 1)

PrefixedFormsAgree ==
    /\ vResult.caret = vResult.plain
    /\ vResult.tilde = vResult.plain
    /\ vResult.gte = vResult.plain

\* C8 as stated (exact comparison on the cleaned value): the prefixed forms of a
\* version get the result of the version itself, and a version that, stripped of
\* its leading range-prefix characters, equals no member of a non-empty list is
\* reported unaffected.
VersionComparisonAsStated ==
    vpc = "done" =>
        /\ PrefixedFormsAgree
        /\ (~isNullish(vAffected) /\ vAffected.list # {}
              /\ StrippedOfPrefix(vVersion) \notin vAffected.list)
           => vResult.plain = FALSE

\* C8 (amended): the cleaned value is the text before the first space of the
\* version stripped of its leading range-prefix characters; the prefixed forms
\* agree, and against a non-empty list a version is affected exactly when its
\* cleaned value equals a member.
VersionComparisonExact ==
    vpc = "done" =>
        /\ PrefixedFormsAgree
        /\ (~isNullish(vAffected) /\ vAffected.list # {})
           => vResult.plain = (BeforeFirstSpace(StrippedOfPrefix(vVersion)) \in vAffected.list)

VersionComparisonWitness ==
    /\ vpc = "done"
    /\ vVersion = <<"1", "2">>
    /\ vAffected = [list |-> {V1, V2}]
    /\ vResult.gte = FALSE
    /\ vResult.plain = FALSE

----------------------------------------------------------------------------
(* The dependency graph: mergeDependencies *)

\* a Map keyed by package name is the sequence of its entries in insertion order
mapHas(m, key) == \E i \in 1..Len(m) : m[i].name = key
mapGet(m, key) == m[CHOOSE i \in 1..Len(m) : m[i].name = key]

\* Map.prototype.set that never replaces an entry
mapSetAppend(m, key, value) == Append(m, [name |-> key] @@ value)

\* Map.prototype.set: replace the entry of the key in place, or append a new entry
mapSet(m, key, value) ==
    IF mapHas(m, key)
    THEN [ i \in 1..Len(m) |-> IF m[i].name = key THEN [name |-> key] @@ value ELSE m[i] ]
    ELSE Append(m, [name |-> key] @@ value)

\* the entry written whether or not the name is already there
setAlways(packages, name, value) == mapSet(packages, name, value)

\* if (!packages.has(name)) packages.set(name, value)
setIfNew(packages, name, value) ==
    IF mapHas(packages, name) THEN packages ELSE mapSet(packages, name, value)

\* the map a decoder leaves for the entries a lock file records, taken in
\* document order: parsePnpmLock and parseYarnLock write a name once
\* (if (!packages.has(name))), parseNpmLock writes it every time (packages.set)
RECURSIVE recordEntries(_, _, _)
recordEntries(type, entries, packages) ==
    IF entries = <<>>
    THEN packages
    ELSE LET e == Head(entries)
             value == [ version |-> e.version, dependencyChain |-> e.dependencyChain ]
         IN  recordEntries(type, Tail(entries),
                           IF type = "npm"
                           THEN mapSet(packages, e.name, value)
                           ELSE setIfNew(packages, e.name, value))

\* for (const [name, version] of Object.entries(directDeps)) merged.set(name, {...})
RECURSIVE addDirect(_, _)
addDirect(merged, directDeps) ==
    IF directDeps = <<>>
    THEN merged
    ELSE addDirect(mapSet(merged, Head(directDeps).name,
                          [ version         |-> Head(directDeps).version,
                            isDirect        |-> TRUE,
                            isTransitive    |-> FALSE,
                            dependencyChain |-> <<>> ]),
                   Tail(directDeps))

\* the lock loop with the node of a known name rebuilt from the lock entry
RECURSIVE addLockedOverwrite(_, _)
addLockedOverwrite(merged, lockPackages) ==
    IF lockPackages = <<>>
    THEN merged
    ELSE addLockedOverwrite(mapSet(merged, Head(lockPackages).name,
                                   [ version         |-> Head(lockPackages).version,
                                     isDirect        |-> FALSE,
                                     isTransitive    |-> TRUE,
                                     dependencyChain |-> Head(lockPackages).dependencyChain ]),
                            Tail(lockPackages))

\* the lock loop without the merged.has(name) test
RECURSIVE addLockedAppend(_, _)
addLockedAppend(merged, lockPackages) ==
    IF lockPackages = <<>>
    THEN merged
    ELSE addLockedAppend(mapSetAppend(merged, Head(lockPackages).name,
                                      [ version         |-> Head(lockPackages).version,
                                        isDirect        |-> FALSE,
                                        isTransitive    |-> TRUE,
                                        dependencyChain |-> Head(lockPackages).dependencyChain ]),
                         Tail(lockPackages))

\* for (const [name, info] of lockPackages): a new transitive node, or the
\* version of the existing node updated
RECURSIVE addLocked(_, _)
addLocked(merged, lockPackages) ==
    IF lockPackages = <<>>
    THEN merged
    ELSE LET name == Head(lockPackages).name
             info == Head(lockPackages)
         IN  IF ~mapHas(merged, name)
             THEN addLocked(mapSet(merged, name,
                                   [ version         |-> info.version,
                                     isDirect        |-> FALSE,
                                     isTransitive    |-> TRUE,
                                     dependencyChain |-> info.dependencyChain ]),
                            Tail(lockPackages))
             ELSE addLocked([ i \in 1..Len(merged) |->
                                IF merged[i].name = name
                                THEN [merged[i] EXCEPT !.version = info.version]
                                ELSE merged[i] ],
                            Tail(lockPackages))

mergeDependencies(directDeps, lockPackages) ==
    addLocked(addDirect(<<>>, directDeps), lockPackages)

----------------------------------------------------------------------------
(* The scan pipeline: scan() *)

NoFile == "null"     \* the null of scanStats.lockFileType and of the lockFile output field

\* the database taken as loaded whatever the state of its file
loadCompromisedDbUnchecked(state) == db

\* loadCompromisedDb() and loadPackageJson(): the parsed document, or null when
\* the file is not found, cannot be read or is not JSON
loadCompromisedDb(state) == IF state.db = "ok" THEN db ELSE Null
loadPackageJson(state) == IF state.manifest = "ok" THEN packageJson ELSE Null

\* const mergedOptions = {...config, strict: options.strict || config.strict,
\*                        deep: options.deep || config.scanDeep, ...}
mergedOptions(opts, cfg) ==
    [ strict |-> opts.strict \/ (has(cfg, "strict") /\ cfg.strict),
      deep   |-> opts.deep \/ (has(cfg, "scanDeep") /\ cfg.scanDeep) ]

\* {...target, ...source}: a key of source replaces the value of the same key
\* of target in place, a new key is appended
RECURSIVE spread(_, _)
spread(target, source) ==
    IF source = <<>>
    THEN target
    ELSE spread(mapSet(target, Head(source).name, [ version |-> Head(source).version ]),
                Tail(source))

\* packageJson.<key>, an absent map spreading to nothing
section(pkg, key) == IF has(pkg, key) THEN pkg[key] ELSE <<>>

\* the four maps spread with the optional map first
combineDependenciesOptionalFirst(pkg) ==
    spread(spread(spread(spread(<<>>, section(pkg, "optionalDependencies")),
                         section(pkg, "peerDependencies")),
                  section(pkg, "devDependencies")),
           section(pkg, "dependencies"))

\* const directDependencies = {...dependencies, ...devDependencies,
\*                             ...peerDependencies, ...optionalDependencies}
combineDependencies(pkg) ==
    spread(spread(spread(spread(<<>>, section(pkg, "dependencies")),
                         section(pkg, "devDependencies")),
                  section(pkg, "peerDependencies")),
           section(pkg, "optionalDependencies"))

\* loadLockFile(): null when no lock file is detected or reading it fails
loadLockFile(artifact) ==
    IF isNullish(artifact)
    THEN Null
    ELSE IF ~artifact.readable
    THEN Null
    ELSE [ type |-> artifact.type, packages |-> artifact.packages,
           filename |-> artifact.filename ]

\* getLockedVersions(): the versions of the project's lock file, by name
lockedVersion(name, declared) ==
    IF /\ ~isNullish(lockArtifact)
       /\ lockArtifact.readable
       /\ mapHas(lockArtifact.packages, name)
    THEN mapGet(lockArtifact.packages, name).version
    ELSE declared

\* the direct-only node map: version is lockedVersions[name] || version
directOnly(directDeps) ==
    [ i \in 1..Len(directDeps) |->
        [ name            |-> directDeps[i].name,
          version         |-> lockedVersion(directDeps[i].name, directDeps[i].version),
          isDirect        |-> TRUE,
          isTransitive    |-> FALSE,
          dependencyChain |-> <<>> ] ]

\* the depInfo argument scan() passes for a node
nodeInfo(node) ==
    [ version         |-> node.version,
      isDirect        |-> node.isDirect,
      isTransitive    |-> node.isTransitive,
      dependencyChain |-> node.dependencyChain ]

allIssues(res) == res.critical \o res.high \o res.medium \o res.low

countTransitive(issues) ==
    Cardinality({ i \in 1..Len(issues) : has(issues[i], "isTransitive") /\ issues[i].isTransitive })

printJsonResults(res, stats) ==
    [ scanMode         |-> IF stats.lockFileType # NoFile THEN "deep" ELSE "direct",
      lockFile         |-> stats.lockFileType,
      packagesScanned  |-> [ total      |-> stats.total,
                             direct     |-> stats.direct,
                             transitive |-> stats.transitive ],
      packagesIgnored  |-> stats.ignored,
      packagesTrusted  |-> stats.trusted,
      totalIssues      |-> Len(allIssues(res)),
      transitiveIssues |-> countTransitive(allIssues(res)),
      results          |-> res ]

\* the text summary of printResults, as the figures it prints
printResults(res, stats) ==
    [ text            |-> TRUE,
      scanMode        |-> IF stats.lockFileType # NoFile THEN "deep" ELSE "direct",
      packagesScanned |-> stats.total,
      totalIssues     |-> Len(allIssues(res)) ]

\* printResults returns normally only when it has no issue to list: past the
\* "no issues" return it reads the undeclared identifier stats
printResultsThrows(res) == Len(allIssues(res)) > 0

\* every issue pushed to the critical bucket
addToBucketCritical(res, issue) == [ res EXCEPT !.critical = Append(@, issue) ]

\* results[result.severity].push(result)
addToBucket(res, issue) == [ res EXCEPT ![issue.severity] = Append(@, issue) ]

\* log(...): prints unless --json (or --silent) is given
log(opts, lines) == IF opts.json THEN <<>> ELSE lines

\* fixPackages(issues): the packages it lists, whether it runs the removal
\* command, the packages the command names, and whether the command failed
\* (execSync throws inside a try whose catch only logs)
fixPackages(issues, opts, commandFails) ==
    LET packageNames == [ i \in 1..Len(issues) |-> issues[i].package ]
        runs == Len(issues) > 0 /\ opts.yes
    IN  [ listed  |-> log(opts, packageNames),
          removed |-> runs,
          command |-> IF runs THEN packageNames ELSE <<>>,
          failed  |-> runs /\ commandFails ]

NoEffects ==
    [ report |-> FALSE,
      fix |-> [ listed |-> <<>>, removed |-> FALSE, command |-> <<>>, failed |-> FALSE ] ]

\* const failOn = config.failOn || ['critical', 'high']
failLevels(cfg) == IF has(cfg, "failOn") THEN cfg.failOn ELSE {"critical", "high"}

\* the exit code scan() ends with once the results are printed
exitStatus(res, cfg, opts) ==
    LET failOn == failLevels(cfg)
    IN  IF "critical" \in failOn /\ Len(res.critical) > 0 THEN 1
        ELSE IF "high" \in failOn /\ Len(res.high) > 0 THEN 1
        ELSE IF ("medium" \in failOn \/ opts.strict) /\ Len(res.medium) > 0 THEN 1
        ELSE IF ("low" \in failOn \/ opts.strict) /\ Len(res.low) > 0 THEN 1
        ELSE 0

----------------------------------------------------------------------------
(* Inputs of the scan *)

MaxDirect == 2     \* names declared in the manifest
MaxLock   == 2     \* entries of the decoded lock map

distinctNames(seq) == \A i, j \in 1..Len(seq) : i # j => seq[i].name # seq[j].name

Manifests ==
    { m \in SeqsUpTo([ name : Names, version : {VCaret1} ], MaxDirect) : distinctNames(m) }

\* a lock entry: found at the top level at either version, or below "p"
LockEntries ==
    [ name : Names, version : {V1, V2}, dependencyChain : { <<>> } ] \cup
    [ name : Names, version : {V2}, dependencyChain : { <<NameP>> } ]

LockMaps == { m \in SeqsUpTo(LockEntries, MaxLock) : distinctNames(m) }

LockFiles ==
    { Null } \cup
    { [ type |-> "pnpm", filename |-> "pnpm-lock.yaml", readable |-> TRUE, packages |-> m ] :
        m \in LockMaps }

\* the lock files of the runs that exercise the fallback: none, one that cannot
\* be read, one that decodes to nothing, one with a direct and a transitive name
FallbackLockFiles ==
    { Null,
      [ type |-> "npm", filename |-> "package-lock.json", readable |-> FALSE,
        packages |-> <<>> ],
      [ type |-> "yarn", filename |-> "yarn.lock", readable |-> TRUE, packages |-> <<>> ],
      [ type |-> "npm", filename |-> "package-lock.json", readable |-> TRUE,
        packages |-> << [ name |-> NameP, version |-> V1, dependencyChain |-> <<>> ],
                        [ name |-> NameScoped, version |-> V2,
                          dependencyChain |-> <<NameP>> ] >> ] }

\* lock files that record the name "p" more than once, with the map decoded
\* from them
LockFileNames == [ pnpm |-> "pnpm-lock.yaml", npm |-> "package-lock.json", yarn |-> "yarn.lock" ]

DuplicateLockFiles ==
    { [ type |-> t, filename |-> LockFileNames[t], readable |-> TRUE, entries |-> e,
        packages |-> recordEntries(t, e, <<>>) ] :
        t \in DOMAIN LockFileNames,
        e \in { d \in SeqsUpTo([ name : {NameP}, version : {V1, V2},
                                  dependencyChain : { <<>> } ], MaxLock) : Len(d) >= 2 } }

ScanDatabases ==
    { makeDb({"confirmed"}, <<PatScope>>, campaignsOf(<<"keyed">>)),
      makeDb({"protestwareMedium"}, <<>>, campaignsOf(<<"listed">>)) }

\* one database per severity a list or tier gives, and one that flags nothing
SeverityDatabases ==
    { makeDb(cats, <<>>, <<>>) :
        cats \in { {}, {"confirmed"}, {"protestwareHigh"}, {"protestwareMedium"},
                   {"protestwareLow"} } }

\* an object literal: a key written twice keeps the value written last
objectLiteral(entries) ==
    [ k \in { entries[i].key : i \in 1..Len(entries) } |->
        LET last == CHOOSE i \in 1..Len(entries) :
                        /\ entries[i].key = k
                        /\ \A j \in 1..Len(entries) : entries[j].key = k => j <= i
        IN  entries[last].value ]

\* const options = { json: ..., strict: ..., deep: ..., fix: ..., yes: ..., deep: ...,
\*                   report: ... }: the keys the scan reads, in the order written
parseOptions(argv) ==
    objectLiteral(<< [ key |-> "json",   value |-> "--json" \in argv ],
                     [ key |-> "strict", value |-> "--strict" \in argv ],
                     [ key |-> "deep",   value |-> "--deep" \in argv \/ "-d" \in argv ],
                     [ key |-> "fix",    value |-> "--fix" \in argv ],
                     [ key |-> "yes",    value |-> "--yes" \in argv \/ "-y" \in argv ],
                     [ key |-> "deep",   value |-> "--deep" \in argv ],
                     [ key |-> "report", value |-> "--report" \in argv ] >>)

NoFlags == parseOptions({})

EmptyConfig == [ ignore |-> <<>>, trustedPackages |-> <<>> ]

\* configuration files: failOn absent or a list, strict and scanDeep absent or true
ExitConfigs ==
    { EmptyConfig @@ f @@ s @@ d :
        f \in { <<>>, [ failOn |-> {} ], [ failOn |-> {"medium"} ],
                [ failOn |-> {"critical", "high", "medium", "low"} ] },
        s \in { <<>>, [ strict |-> TRUE ] },
        d \in { <<>>, [ scanDeep |-> TRUE ] } }

\* the metadata a database document is to supply as non-empty strings
RequiredFields == {"version", "lastUpdated"}

AllLoaded == [ db |-> "ok", manifest |-> "ok", dbFields |-> RequiredFields ]

\* the two files as found on disk: each missing, not JSON or parsed; and, where
\* both parse, the required fields the database document supplies
LoadStates ==
    [ db : {"ok", "missing", "unparseable"}, manifest : {"ok", "missing", "unparseable"},
      dbFields : {RequiredFields} ] \cup
    [ db : {"ok"}, manifest : {"ok"}, dbFields : SUBSET RequiredFields ]

\* the version each dependency map of the sectioned manifests declares
SectionVersion ==
    [ dependencies |-> VCaret1, devDependencies |-> V1, peerDependencies |-> V2,
      optionalDependencies |-> VRange ]

\* a dependency map: absent, or declaring NameP, NameScoped or both in either order
sectionChoices(key) ==
    LET e(n) == [ name |-> n, version |-> SectionVersion[key] ]
    IN  { <<>>,
          [ x \in {key} |-> <<e(NameP)>> ],
          [ x \in {key} |-> <<e(NameScoped)>> ],
          [ x \in {key} |-> <<e(NameP), e(NameScoped)>> ],
          [ x \in {key} |-> <<e(NameScoped), e(NameP)>> ] }

SectionedManifests ==
    { a @@ b @@ c @@ d :
        a \in sectionChoices("dependencies"),
        b \in sectionChoices("devDependencies"),
        c \in sectionChoices("peerDependencies"),
        d \in sectionChoices("optionalDependencies") }

\* runs that exercise the graph builder
InitGraph ==
    /\ db \in ScanDatabases
    /\ config = EmptyConfig
    /\ ignoreList \in { <<>>, <<NameQ>> }
    /\ args \in { d \cup j : d \in { {}, {"--deep"}, {"-d"} }, j \in { {}, {"--json"} } }
    /\ options = parseOptions(args)
    /\ loadState = AllLoaded
    /\ packageJson \in { [ dependencies |-> m ] : m \in Manifests }
    /\ lockArtifact \in LockFiles

\* runs that exercise the flags, the configuration and the lock fallback
InitExit ==
    /\ db \in SeverityDatabases
    /\ config \in ExitConfigs
    /\ ignoreList = <<>>
    /\ args \in SUBSET {"--deep", "--json", "--strict", "--fix", "--yes", "--report"}
    /\ options = parseOptions(args)
    /\ loadState = AllLoaded
    /\ packageJson = [ dependencies |-> << [ name |-> NameP, version |-> VCaret1 ],
                                           [ name |-> NameQ, version |-> VCaret1 ] >> ]
    /\ lockArtifact \in FallbackLockFiles

\* runs that exercise the four dependency maps of the manifest
InitManifest ==
    /\ db = makeDb({"confirmed"}, <<>>, <<>>)
    /\ config = EmptyConfig
    /\ ignoreList = <<>>
    /\ args = {"--json"}
    /\ options = parseOptions(args)
    /\ loadState = AllLoaded
    /\ packageJson \in SectionedManifests
    /\ lockArtifact = Null

\* runs in which the database or the manifest cannot be loaded, or the
\* database document lacks a required field
InitLoadFailure ==
    /\ db = makeDb({"confirmed"}, <<>>, <<>>)
    /\ config = EmptyConfig
    /\ ignoreList = <<>>
    /\ args \in { j \cup f : j \in { {}, {"--json"} },
                             f \in { {}, {"--fix", "--yes", "--report"} } }
    /\ options = parseOptions(args)
    /\ loadState \in LoadStates \ {AllLoaded}
    /\ packageJson = [ dependencies |-> << [ name |-> NameP, version |-> VCaret1 ] >> ]
    /\ lockArtifact \in FallbackLockFiles

\* deep scans of a lock file that records a name at several versions, with a
\* campaign that lists the name and its affected version
InitDuplicates ==
    /\ db = makeDb({}, <<>>, campaignsOf(<<"listed">>))
    /\ config = EmptyConfig
    /\ ignoreList = <<>>
    /\ args \in { {"--deep"}, {"--deep", "--json"} }
    /\ options = parseOptions(args)
    /\ loadState = AllLoaded
    /\ packageJson \in { [ dependencies |-> << [ name |-> n, version |-> VCaret1 ] >> ] :
                            n \in {NameP, NameQ} }
    /\ lockArtifact \in DuplicateLockFiles

Init ==
    /\ InitGraph \/ InitExit \/ InitManifest \/ InitLoadFailure \/ InitDuplicates
    /\ directDependencies = <<>>
    /\ lockFile = Null
    /\ allDependencies = <<>>
    /\ scanStats = Null
    /\ results = Null
    /\ cursor = 0
    /\ output = Null
    /\ effects = NoEffects
    /\ exitCode = -1
    /\ pc = "start"
    /\ ClassifyIdle
    /\ VersionIdle
    /\ DecodeIdle
    /\ PatternIdle
    /\ BatchIdle

inputVars == <<db, config, ignoreList, args, options, loadState, packageJson, lockArtifact>>

\* scan(): the database or package.json cannot be loaded: process.exit(2)
LoadFailure ==
    /\ pc = "start"
    /\ isNullish(loadCompromisedDb(loadState)) \/ isNullish(loadPackageJson(loadState))
    /\ pc' = "exited"
    /\ exitCode' = 2
    /\ UNCHANGED <<directDependencies, lockFile, allDependencies, scanStats, results,
                   cursor, output, effects>>
    /\ UNCHANGED <<inputVars, classifyVars, versionVars, decodeVars, patternVars, batchVars>>

\* scan(): a manifest that declares nothing ends the run with status 0
NoDependencies ==
    /\ pc = "start"
    /\ ~isNullish(loadCompromisedDb(loadState))
    /\ ~isNullish(loadPackageJson(loadState))
    /\ LET direct == combineDependencies(loadPackageJson(loadState))
       IN  /\ Len(direct) = 0
           /\ directDependencies' = direct
    /\ pc' = "exited"
    /\ exitCode' = 0
    /\ UNCHANGED <<lockFile, allDependencies, scanStats, results, cursor, output, effects>>
    /\ UNCHANGED <<inputVars, classifyVars, versionVars, decodeVars, patternVars, batchVars>>

\* scan(): build the node map, merged with the lock file in deep mode
BuildGraph ==
    /\ pc = "start"
    /\ ~isNullish(loadCompromisedDb(loadState))
    /\ ~isNullish(loadPackageJson(loadState))
    /\ LET direct == combineDependencies(loadPackageJson(loadState))
           directCount == Len(direct)
           stats == [ total        |-> directCount,
                      direct       |-> directCount,
                      transitive   |-> 0,
                      lockFileType |-> NoFile,
                      ignored      |-> 0,
                      trusted      |-> 0 ]
           loaded == IF mergedOptions(options, config).deep
                     THEN loadLockFile(lockArtifact)
                     ELSE Null
       IN  /\ directCount > 0
           /\ directDependencies' = direct
           /\ lockFile' = loaded
           /\ IF ~isNullish(loaded) /\ Len(loaded.packages) > 0
              THEN LET merged == mergeDependencies(direct, loaded.packages)
                   IN  /\ allDependencies' = merged
                       /\ scanStats' =
                            [ stats EXCEPT !.total = Len(merged),
                                           !.transitive = Len(merged) - directCount,
                                           !.lockFileType = loaded.filename ]
              ELSE /\ allDependencies' = directOnly(direct)
                   /\ scanStats' = stats
    /\ results' = [ critical |-> <<>>, high |-> <<>>, medium |-> <<>>, low |-> <<>> ]
    /\ cursor' = 1
    /\ pc' = "scan"
    /\ UNCHANGED exitCode
    /\ UNCHANGED <<output, effects>>
    /\ UNCHANGED <<inputVars, classifyVars, versionVars, decodeVars, patternVars, batchVars>>

\* scan(): one turn of the loop over allDependencies
ScanPackage ==
    /\ pc = "scan"
    /\ cursor <= Len(allDependencies)
    /\ LET node == allDependencies[cursor]
           r == checkPackage(node.name, node.version, db, nodeInfo(node), config)
       IN  IF isIgnoredResult(r)
           THEN /\ scanStats' = [ scanStats EXCEPT !.ignored = @ + 1 ]
                /\ UNCHANGED results
           ELSE IF isTrustedResult(r)
           THEN /\ scanStats' = [ scanStats EXCEPT !.trusted = @ + 1 ]
                /\ UNCHANGED results
           ELSE IF ~isNullish(r)
           THEN /\ results' = addToBucket(results, r)
                /\ UNCHANGED scanStats
           ELSE UNCHANGED <<scanStats, results>>
    /\ cursor' = cursor + 1
    /\ UNCHANGED <<directDependencies, lockFile, allDependencies, output, effects,
                   exitCode, pc>>
    /\ UNCHANGED <<inputVars, classifyVars, versionVars, decodeVars, patternVars, batchVars>>

\* scan(): print the results. A ReferenceError raised by printResults leaves
\* scan() and scan().catch ends the process with status 2.
Output ==
    /\ pc = "scan"
    /\ cursor > Len(allDependencies)
    /\ IF options.json
       THEN /\ output' = printJsonResults(results, scanStats)
            /\ pc' = "printed"
            /\ UNCHANGED exitCode
       ELSE /\ output' = printResults(results, scanStats)
            /\ IF printResultsThrows(results)
               THEN pc' = "exited" /\ exitCode' = 2
               ELSE pc' = "printed" /\ UNCHANGED exitCode
    /\ UNCHANGED <<directDependencies, lockFile, allDependencies, scanStats, results,
                   cursor, effects>>
    /\ UNCHANGED <<inputVars, classifyVars, versionVars, decodeVars, patternVars, batchVars>>

\* scan(): the HTML report, the package removal and the exit code
Finish ==
    /\ pc = "printed"
    /\ \E commandFails \in BOOLEAN :
         effects' = [ report |-> options.report,
                      fix    |-> IF options.fix
                                 THEN fixPackages(results.critical \o results.high, options,
                                                  commandFails)
                                 ELSE NoEffects.fix ]
    /\ exitCode' = exitStatus(results, config, options)
    /\ pc' = "exited"
    /\ UNCHANGED <<directDependencies, lockFile, allDependencies, scanStats, results,
                   cursor, output>>
    /\ UNCHANGED <<inputVars, classifyVars, versionVars, decodeVars, patternVars, batchVars>>

Next == LoadFailure \/ NoDependencies \/ BuildGraph \/ ScanPackage \/ Output \/ Finish

Spec == Init /\ [][Next]_vars

----------------------------------------------------------------------------
(* Properties of the graph builder and of the scan's totals, checked under Spec *)

DirectNames == { directDependencies[i].name : i \in 1..Len(directDependencies) }

LockNames ==
    IF isNullish(lockFile) THEN {}
    ELSE { lockFile.packages[i].name : i \in 1..Len(lockFile.packages) }

DeclaredEntry(name) ==
    CHOOSE e \in { directDependencies[i] : i \in 1..Len(directDependencies) } : e.name = name

LockEntry(name) ==
    CHOOSE e \in { lockFile.packages[i] : i \in 1..Len(lockFile.packages) } : e.name = name

\* the node map has been built
GraphBuilt == ~isNullish(scanStats)

\* the node map came from mergeDependencies
GraphMerged == GraphBuilt /\ options.deep /\ LockNames # {}

MergeFrameCondition ==
    GraphMerged =>
        \A i \in 1..Len(allDependencies) :
            LET node == allDependencies[i]
            IN  /\ node.isDirect = ~node.isTransitive
                /\ IF node.name \in DirectNames
                   THEN /\ node.isDirect
                        /\ ~node.isTransitive
                        /\ node.dependencyChain = <<>>
                        /\ node.version = IF node.name \in LockNames
                                          THEN LockEntry(node.name).version
                                          ELSE DeclaredEntry(node.name).version
                   ELSE /\ ~node.isDirect
                        /\ node.isTransitive
                        /\ node.version = LockEntry(node.name).version
                        /\ node.dependencyChain = LockEntry(node.name).dependencyChain

MergeFrameConditionWitness ==
    /\ GraphMerged
    /\ \E i, j \in 1..Len(allDependencies) :
          /\ allDependencies[i].name \in DirectNames \cap LockNames
          /\ allDependencies[i].version = V2
          /\ LockEntry(allDependencies[i].name).dependencyChain = <<NameP>>
          /\ allDependencies[i].dependencyChain = <<>>
          /\ allDependencies[j].name \notin DirectNames
          /\ allDependencies[j].dependencyChain = <<NameP>>

----------------------------------------------------------------------------
(* Properties of the lock fallback, of issue provenance and of the exit code *)

\* the names the manifest declares, in any of its four dependency maps
ManifestNames ==
    IF isNullish(packageJson) THEN {}
    ELSE UNION { { packageJson[k][i].name : i \in 1..Len(packageJson[k]) } :
                   k \in DOMAIN packageJson }

NodeNames == { allDependencies[i].name : i \in 1..Len(allDependencies) }

DeepRequested == options.deep \/ (has(config, "scanDeep") /\ config.scanDeep)

\* a deep scan whose lock file is absent, unreadable or decodes to nothing
FallbackScan ==
    /\ GraphBuilt
    /\ DeepRequested
    /\ \/ isNullish(lockArtifact)
       \/ ~lockArtifact.readable
       \/ Len(lockArtifact.packages) = 0

ScanEnded == pc = "exited" /\ GraphBuilt

HasIssueAt(level) == Len(results[level]) > 0

FailLevels == IF has(config, "failOn") THEN config.failOn ELSE {"critical", "high"}

\* the exit status the issues found dictate: 1 when a bucket of a failing
\* level holds an issue, 0 otherwise
DictatedStatus ==
    IF \E level \in FailLevels \cup (IF options.strict THEN {"medium", "low"} ELSE {}) :
           HasIssueAt(level)
    THEN 1
    ELSE 0

\* the part of the lock fallback that concerns the node set and the reported mode
LockFallbackNodes ==
    FallbackScan =>
        /\ NodeNames = ManifestNames
        /\ Len(allDependencies) = Cardinality(ManifestNames)
        /\ \A i \in 1..Len(allDependencies) :
              /\ allDependencies[i].isDirect
              /\ ~allDependencies[i].isTransitive
              /\ allDependencies[i].dependencyChain = <<>>
        /\ scanStats.transitive = 0
        /\ scanStats.lockFileType = NoFile
        /\ ~isNullish(output) =>
              /\ output.scanMode = "direct"
              /\ has(output, "lockFile") =>
                    /\ output.lockFile = NoFile
                    /\ output.packagesScanned.transitive = 0

\* C11 (lock fallback), as stated: in a deep scan without usable lock data the
\* node set is one direct node per manifest name, the result reports mode
\* direct, no lock file and no transitive node, and the scan ends with the exit
\* status its issues dictate, never with status 2.
LockFallbackAsStated ==
    /\ LockFallbackNodes
    /\ (FallbackScan /\ ScanEnded) => (exitCode = DictatedStatus /\ exitCode # 2)

LockFallbackWitness ==
    /\ FallbackScan
    /\ ScanEnded
    /\ ~isNullish(lockArtifact)
    /\ ~lockArtifact.readable
    /\ ~options.json
    /\ HasIssueAt("critical")
    /\ exitCode = 2

\* the node an issue was produced for
NodeOf(issue) == mapGet(allDependencies, issue.package)

ScanPrinted == ~isNullish(output)

\* the transitive nodes of the graph that produced an issue
TransitiveNodesWithIssue ==
    { i \in 1..Len(allDependencies) :
        /\ allDependencies[i].isTransitive
        /\ \E k \in 1..Len(allIssues(results)) :
              allIssues(results)[k].package = allDependencies[i].name }

CarriesProvenance(issue) ==
    /\ has(issue, "isDirect")
    /\ has(issue, "isTransitive")
    /\ has(issue, "dependencyChain")
    /\ issue.isDirect = NodeOf(issue).isDirect
    /\ issue.isTransitive = NodeOf(issue).isTransitive
    /\ issue.dependencyChain = NodeOf(issue).dependencyChain

\* C12 (issue provenance), as stated: every issue of every rule carries the
\* isDirect, isTransitive and chain values of its node, and the transitiveIssues
\* figure of the JSON result is the number of transitive nodes with an issue.
IssueProvenanceAsStated ==
    GraphBuilt /\ ~isNullish(results) =>
        /\ \A k \in 1..Len(allIssues(results)) : CarriesProvenance(allIssues(results)[k])
        /\ (ScanPrinted /\ has(output, "transitiveIssues")) =>
              output.transitiveIssues = Cardinality(TransitiveNodesWithIssue)

\* the issues of the lists, the tiers and the campaign packages rule do carry
\* the node's provenance
IssueProvenanceOfBaseIssue ==
    GraphBuilt /\ ~isNullish(results) =>
        \A k \in 1..Len(allIssues(results)) :
            LET issue == allIssues(results)[k]
            IN  issue.reason # "This specific version was compromised in the attack"
                    => CarriesProvenance(issue)

IssueProvenanceWitness ==
    /\ ScanPrinted
    /\ has(output, "transitiveIssues")
    /\ output.transitiveIssues = 0
    /\ Cardinality(TransitiveNodesWithIssue) = 1
    /\ \E k \in 1..Len(results.critical) : ~has(results.critical[k], "isTransitive")

----------------------------------------------------------------------------
(* The lock decoders: parsePnpmLock, parseNpmLock, parseYarnLock, in the   *)
(* command-line scanner and in the web scanner library.                    *)
(*                                                                         *)
(* A package-lock.json text is what JSON.parse makes of it: a SyntaxError, *)
(* or a document. A path key is the sequence of its segments between       *)
(* slashes, and a name or chain element the decoder cuts out of a path is  *)
(* the sequence of segments it spans. A line of pnpm-lock.yaml or          *)
(* yarn.lock is what the decoder's tests and regular expressions read of   *)
(* it: its indentation, its kind, and the name and version captured; a     *)
(* text of these two dialects is the record of its lines.                  *)

Marker == "node_modules"
ScopeSegments == {"@s"}          \* segments that match @[^/]+

returned(map) == [ threw |-> FALSE, packages |-> map ]
raised(message) == [ threw |-> TRUE, message |-> message ]

\* pkgPath.match(/node_modules\/((?:@[^/]+\/)?[^/]+)$/): the captured name, or null
matchPackagePath(path) ==
    LET n == Len(path)
    IN  IF n >= 3 /\ path[n - 2] = Marker /\ path[n - 1] \in ScopeSegments /\ path[n] # ""
        THEN [ name |-> <<path[n - 1], path[n]>> ]
        ELSE IF n >= 2 /\ path[n - 1] = Marker /\ path[n] # ""
        THEN [ name |-> <<path[n]>> ]
        ELSE Null

\* pkgPath.split('/node_modules/') from segment i on; piece holds the segments
\* of the part being read, and slashFree tells that the slash before segment i
\* is not part of the separator just consumed
RECURSIVE splitOnMarker(_, _, _, _)
splitOnMarker(path, i, piece, slashFree) ==
    IF i > Len(path)
    THEN <<piece>>
    ELSE IF path[i] = Marker /\ i > 1 /\ i < Len(path) /\ slashFree
    THEN <<piece>> \o splitOnMarker(path, i + 1, <<>>, FALSE)
    ELSE splitOnMarker(path, i + 1, Append(piece, path[i]), TRUE)

isEmptyString(piece) == piece = <<>> \/ piece = <<"">>

keepPart(piece) == ~isEmptyString(piece) /\ piece # <<Marker>>

\* extractDependencyChain(pkgPath): split, filter, slice(0, -1)
extractDependencyChain(path) ==
    LET parts == SelectSeq(splitOnMarker(path, 1, <<>>, TRUE), keepPart)
    IN  IF parts = <<>> THEN <<>> ELSE SubSeq(parts, 1, Len(parts) - 1)

versionOr(info) == IF has(info, "version") THEN info.version ELSE "unknown"

flag(info, key) == has(info, key) /\ info[key]

\* for (const [pkgPath, pkgInfo] of Object.entries(lockfile.packages)), from
\* entry i on; reading a property of a null pkgInfo raises a TypeError
RECURSIVE npmPackages(_, _, _, _)
npmPackages(entries, i, packages, web) ==
    IF i > Len(entries)
    THEN returned(packages)
    ELSE LET pkgPath == entries[i].path
             pkgInfo == entries[i].info
             match   == matchPackagePath(pkgPath)
         IN  IF pkgPath = <<>> \/ isNullish(match)
             THEN npmPackages(entries, i + 1, packages, web)
             ELSE IF isNullish(pkgInfo)
             THEN [ threw |-> TRUE, packages |-> packages ]
             ELSE npmPackages(entries, i + 1,
                     mapSet(packages, match.name,
                            IF web
                            THEN [ version |-> versionOr(pkgInfo), isTransitive |-> TRUE ]
                            ELSE [ version         |-> versionOr(pkgInfo),
                                   isTransitive    |-> ~flag(pkgInfo, "dev")
                                                       /\ ~flag(pkgInfo, "peer"),
                                   dependencyChain |-> extractDependencyChain(pkgPath) ]),
                     web)

\* parseNpmDependencies(deps, packages, chain), from entry i of deps on
RECURSIVE parseNpmDependencies(_, _, _, _, _)
parseNpmDependencies(deps, i, packages, chain, web) ==
    IF i > Len(deps)
    THEN returned(packages)
    ELSE LET name == deps[i].name
             info == deps[i].info
         IN  IF isNullish(info)
             THEN [ threw |-> TRUE, packages |-> packages ]
             ELSE LET set == mapSet(packages, name,
                                IF web
                                THEN [ version |-> versionOr(info), isTransitive |-> TRUE ]
                                ELSE [ version         |-> versionOr(info),
                                       isTransitive    |-> Len(chain) > 0,
                                       dependencyChain |-> chain ])
                      nested == IF has(info, "dependencies")
                                THEN parseNpmDependencies(info.dependencies, 1, set,
                                                          Append(chain, name), web)
                                ELSE returned(set)
                  IN  IF nested.threw
                      THEN nested
                      ELSE parseNpmDependencies(deps, i + 1, nested.packages, chain, web)

\* the body of the try block of parseNpmLock: the map as it stands when the
\* block ends, and whether it ended by an exception
npmTry(content, web) ==
    IF ~content.json
    THEN [ threw |-> TRUE, packages |-> <<>> ]
    ELSE IF isNullish(content.doc)
    THEN [ threw |-> TRUE, packages |-> <<>> ]
    ELSE LET lockfile == content.doc
             byPath == IF has(lockfile, "packages")
                       THEN npmPackages(lockfile.packages, 1, <<>>, web)
                       ELSE returned(<<>>)
         IN  IF byPath.threw
             THEN byPath
             ELSE IF has(lockfile, "dependencies")
             THEN parseNpmDependencies(lockfile.dependencies, 1, byPath.packages, <<>>, web)
             ELSE byPath

\* parseNpmLock (command line): the catch block warns and the map is returned
parseNpmLock(content) == returned(npmTry(content, FALSE).packages)

\* parseNpmLock (web library): catch { throw new Error(...) }
parseNpmLockWeb(content) ==
    IF npmTry(content, TRUE).threw
    THEN raised("Invalid package-lock.json format")
    ELSE returned(npmTry(content, TRUE).packages)

\* the line loop of parsePnpmLock from line i on; the web library has no
\* snapshot match and stores no chain
RECURSIVE pnpmLines(_, _, _, _, _)
pnpmLines(lines, i, inPackages, packages, web) ==
    IF i > Len(lines)
    THEN packages
    ELSE LET line == lines[i]
             node == IF web
                     THEN [ version |-> line.version, isTransitive |-> TRUE ]
                     ELSE [ version |-> line.version, isTransitive |-> TRUE,
                            dependencyChain |-> <<>> ]
         IN  IF line.kind \in {"blank", "comment"}
             THEN pnpmLines(lines, i + 1, inPackages, packages, web)
             ELSE IF line.kind = "packages"
             THEN pnpmLines(lines, i + 1, TRUE, packages, web)
             ELSE IF inPackages /\ ~line.indented /\ ~line.keyed
             THEN pnpmLines(lines, i + 1, FALSE, packages, web)
             ELSE IF inPackages /\ (line.kind = "entry" \/ (line.kind = "snapshot" /\ ~web))
             THEN pnpmLines(lines, i + 1, inPackages,
                            setIfNew(packages, line.name, node), web)
             ELSE pnpmLines(lines, i + 1, inPackages, packages, web)

parsePnpmLock(content) == returned(pnpmLines(content.lines, 1, FALSE, <<>>, FALSE))
parsePnpmLockWeb(content) == returned(pnpmLines(content.lines, 1, FALSE, <<>>, TRUE))

\* for (const pkgName of currentPackages) if (!packages.has(pkgName)) packages.set(...)
RECURSIVE setAllIfNew(_, _, _)
setAllIfNew(packages, names, value) ==
    IF names = <<>>
    THEN packages
    ELSE setAllIfNew(setIfNew(packages, Head(names), value), Tail(names), value)

\* the line loop of parseYarnLock from line i on
RECURSIVE yarnLines(_, _, _, _, _)
yarnLines(lines, i, currentPackages, packages, web) ==
    IF i > Len(lines)
    THEN packages
    ELSE LET line == lines[i]
             node == IF web
                     THEN [ version |-> line.version, isTransitive |-> TRUE ]
                     ELSE [ version |-> line.version, isTransitive |-> TRUE,
                            dependencyChain |-> <<>> ]
             current == IF ~line.indented THEN line.names ELSE currentPackages
         IN  IF line.kind \in {"blank", "comment"}
             THEN yarnLines(lines, i + 1, currentPackages, packages, web)
             ELSE IF line.kind = "version" /\ current # <<>>
             THEN yarnLines(lines, i + 1, current, setAllIfNew(packages, current, node), web)
             ELSE yarnLines(lines, i + 1, current, packages, web)

parseYarnLock(content) == returned(yarnLines(content.lines, 1, <<>>, <<>>, FALSE))
parseYarnLockWeb(content) == returned(yarnLines(content.lines, 1, <<>>, <<>>, TRUE))

\* the decoder a call names, applied to its content
decode(call) ==
    CASE call.decoder = "parsePnpmLock" /\ call.lib = "cli" -> parsePnpmLock(call.content)
      [] call.decoder = "parsePnpmLock" /\ call.lib = "web" -> parsePnpmLockWeb(call.content)
      [] call.decoder = "parseNpmLock"  /\ call.lib = "cli" -> parseNpmLock(call.content)
      [] call.decoder = "parseNpmLock"  /\ call.lib = "web" -> parseNpmLockWeb(call.content)
      [] call.decoder = "parseYarnLock" /\ call.lib = "cli" -> parseYarnLock(call.content)
      [] call.decoder = "parseYarnLock" /\ call.lib = "web" -> parseYarnLockWeb(call.content)

----------------------------------------------------------------------------
(* Specification of the decoders: one decoder applied to one drawn content *)

MaxPathLen == 6     \* segments of a path key of package-lock.json
MaxLines   == 4     \* lines of a pnpm-lock.yaml or yarn.lock text

PathSegments == {Marker, "a", "b", "@s"}

Paths == SeqsUpTo(PathSegments, MaxPathLen)

\* a pkgInfo value: null, an object without version, an object with one
NpmInfos == { Null, [ dev |-> TRUE ], [ version |-> "1.0.0" ] }

RootEntry == [ path |-> <<>>, info |-> [ version |-> "0.0.1" ] ]
TopEntry  == [ path |-> <<Marker, "a">>, info |-> [ version |-> "2.0.0" ] ]

\* the nested-object variant: a dependency with one nested dependency
NestedTrees ==
    { << [ name |-> <<"a">>, info |-> i ] >> : i \in NpmInfos } \cup
    { << [ name |-> <<"b">>, info |-> i ],
         [ name |-> <<"a">>, info |-> [ version |-> "2.0.0" ] ] >> : i \in NpmInfos } \cup
    { << [ name |-> <<"a">>,
           info |-> [ version |-> "1.0.0",
                      dependencies |-> << [ name |-> <<"b">>, info |-> i ] >> ] ] >> :
        i \in NpmInfos }

NpmContents ==
    { [ json |-> FALSE, empty |-> TRUE ],
      [ json |-> FALSE, empty |-> FALSE ],
      [ json |-> TRUE, doc |-> Null ],
      [ json |-> TRUE, doc |-> [ lockfileVersion |-> 3 ] ] } \cup
    { [ json |-> TRUE, doc |-> [ packages |-> << RootEntry, [ path |-> q, info |-> i ] >> ] ] :
        q \in Paths, i \in NpmInfos } \cup
    { [ json |-> TRUE,
        doc  |-> [ packages |-> << TopEntry, [ path |-> <<Marker, "b">>, info |-> i ] >> ] ] :
        i \in NpmInfos } \cup
    { [ json |-> TRUE,
        doc  |-> [ packages |-> << [ path |-> <<Marker, "b">>, info |-> i ], TopEntry >> ] ] :
        i \in NpmInfos } \cup
    { [ json |-> TRUE, doc |-> [ dependencies |-> t ] ] : t \in NestedTrees }

PnpmLine(indented, kind, keyed) ==
    [ indented |-> indented, kind |-> kind, keyed |-> keyed, name |-> <<"a">>,
      version |-> "1.0.0" ]

PnpmLineKinds ==
    { PnpmLine(FALSE, "blank", FALSE),
      PnpmLine(FALSE, "comment", FALSE),
      PnpmLine(FALSE, "packages", FALSE),
      PnpmLine(FALSE, "other", FALSE),
      PnpmLine(TRUE, "entry", TRUE),
      PnpmLine(FALSE, "entry", TRUE),
      PnpmLine(FALSE, "entry", FALSE),
      [ PnpmLine(TRUE, "snapshot", FALSE) EXCEPT !.name = <<"b">> ] }

YarnLine(indented, kind, names) ==
    [ indented |-> indented, kind |-> kind, names |-> names, version |-> "1.0.0" ]

\* the same version line with another version captured
YarnVersionLine(ver) == [ YarnLine(TRUE, "version", <<>>) EXCEPT !.version = ver ]

YarnLineKinds ==
    { YarnLine(FALSE, "blank", <<>>),
      YarnLine(FALSE, "comment", <<>>),
      YarnLine(FALSE, "other", <<>>),
      YarnLine(FALSE, "decl", << <<"a">> >>),
      YarnLine(FALSE, "decl", << <<"a">>, <<"@s", "b">> >>),
      YarnLine(TRUE, "other", <<>>),
      YarnLine(TRUE, "version", <<>>),
      YarnVersionLine("2.0.0") }

Libraries == {"cli", "web"}

InitDecode ==
    /\ \E l \in Libraries :
         \/ \E c \in NpmContents :
              lockText = [ decoder |-> "parseNpmLock", lib |-> l, content |-> c ]
         \/ \E c \in SeqsUpTo(PnpmLineKinds, MaxLines) :
              lockText = [ decoder |-> "parsePnpmLock", lib |-> l,
                           content |-> [ lines |-> c ] ]
         \/ \E c \in SeqsUpTo(YarnLineKinds, MaxLines) :
              lockText = [ decoder |-> "parseYarnLock", lib |-> l,
                           content |-> [ lines |-> c ] ]
    /\ decoded = Null
    /\ dpc = "ready"
    /\ DatabaseIdle
    /\ ClassifyIdle
    /\ VersionIdle
    /\ ScanIdle
    /\ PatternIdle
    /\ BatchIdle

\* one call of a lock decoder
Decode ==
    /\ dpc = "ready"
    /\ decoded' = decode(lockText)
    /\ dpc' = "done"
    /\ UNCHANGED lockText
    /\ UNCHANGED <<db, config, ignoreList, classifyVars, versionVars, scanVars, patternVars, batchVars>>

NextDecode == Decode

SpecDecode == InitDecode /\ [][NextDecode]_vars

----------------------------------------------------------------------------
(* Properties of the decoders, checked under SpecDecode *)

Decoded(decoder, lib) == dpc = "done" /\ lockText.decoder = decoder /\ lockText.lib = lib

\* the package names a well-formed path key spells from segment i on: marker,
\* name, marker, name, ..., a name being one segment or a scope and a segment
RECURSIVE PathNames(_, _)
PathNames(path, i) ==
    LET n == Len(path)
        plain(seg) == seg # Marker /\ seg \notin ScopeSegments
    IN  IF i > n
        THEN [ ok |-> TRUE, names |-> <<>> ]
        ELSE IF i + 2 <= n /\ path[i] = Marker /\ path[i + 1] \in ScopeSegments
                /\ plain(path[i + 2])
        THEN LET rest == PathNames(path, i + 3)
             IN  [ ok |-> rest.ok, names |-> << <<path[i + 1], path[i + 2]>> >> \o rest.names ]
        ELSE IF i + 1 <= n /\ path[i] = Marker /\ plain(path[i + 1])
        THEN LET rest == PathNames(path, i + 2)
             IN  [ ok |-> rest.ok, names |-> << <<path[i + 1]>> >> \o rest.names ]
        ELSE [ ok |-> FALSE, names |-> <<>> ]

\* a path-keyed document decoded by the command-line decoder whose second
\* entry has a well-formed key and an info object
PathEntryDecoded ==
    /\ Decoded("parseNpmLock", "cli")
    /\ lockText.content.json
    /\ has(lockText.content.doc, "packages")
    /\ lockText.content.doc.packages[1] = RootEntry
    /\ ~isNullish(lockText.content.doc.packages[2].info)
    /\ PathNames(lockText.content.doc.packages[2].path, 1).ok
    /\ Len(lockText.content.doc.packages[2].path) > 0

EntryPath == lockText.content.doc.packages[2].path
EntryNames == PathNames(EntryPath, 1).names
EntryName == EntryNames[Len(EntryNames)]
EntryAncestors == SubSeq(EntryNames, 1, Len(EntryNames) - 1)

NoMarkerIn(chain) ==
    \A k \in 1..Len(chain) : \A j \in 1..Len(chain[k]) : chain[k][j] # Marker

\* C13 (nested tree chain extraction), as stated: the entry of a path key
\* decodes to the last package name of the path with the ancestor names, root
\* to parent, as its chain; the chain holds no marker segment or prefix, and a
\* top-level entry has an empty chain.
NestedChainAsStated ==
    PathEntryDecoded =>
        /\ ~decoded.threw
        /\ Len(decoded.packages) = 1
        /\ decoded.packages[1].name = EntryName
        /\ decoded.packages[1].dependencyChain = EntryAncestors
        /\ NoMarkerIn(decoded.packages[1].dependencyChain)

\* what the decoder does produce: the name is right, a top-level entry has an
\* empty chain, and a nested entry's chain is the ancestor names with the
\* marker still in front of the first
NestedChainAsDecoded ==
    PathEntryDecoded =>
        /\ ~decoded.threw
        /\ Len(decoded.packages) = 1
        /\ decoded.packages[1].name = EntryName
        /\ decoded.packages[1].dependencyChain =
              IF EntryAncestors = <<>>
              THEN <<>>
              ELSE << <<Marker>> \o Head(EntryAncestors) >> \o Tail(EntryAncestors)

NestedChainWitness ==
    /\ PathEntryDecoded
    /\ EntryPath = <<Marker, "a", Marker, "b">>
    /\ decoded.packages[1].name = <<"b">>
    /\ decoded.packages[1].dependencyChain = << <<Marker, "a">> >>

----------------------------------------------------------------------------
(* Properties of the exit code and of the error paths, checked under Spec *)

Exited == pc = "exited"

IssuesFound == IF isNullish(results) THEN 0 ELSE Len(allIssues(results))

DefaultFailLevels == ~has(config, "failOn")

\* C14 (exit status), as stated: with the default fail levels a scan that found
\* a critical or high issue exits 1 and a scan that found no issue exits 0, in
\* JSON and in human-readable mode; status 2 is never the outcome of a scan
\* that classified its nodes and found issues.
ExitStatusAsStated ==
    /\ (Exited /\ ScanEnded /\ DefaultFailLevels) =>
          /\ (HasIssueAt("critical") \/ HasIssueAt("high")) => exitCode = 1
          /\ IssuesFound = 0 => exitCode = 0
    /\ (Exited /\ ScanEnded /\ IssuesFound > 0) => exitCode # 2

\* the exit status in JSON mode, and in human-readable mode without issues
ExitStatusWhenPrinted ==
    (Exited /\ ScanEnded /\ DefaultFailLevels /\ (options.json \/ IssuesFound = 0)) =>
        /\ (HasIssueAt("critical") \/ HasIssueAt("high")) => exitCode = 1
        /\ IssuesFound = 0 => exitCode = 0
        /\ exitCode # 2

ExitStatusWitness ==
    /\ Exited
    /\ ScanEnded
    /\ DefaultFailLevels
    /\ ~options.json
    /\ ~DeepRequested
    /\ HasIssueAt("critical")
    /\ cursor > Len(allDependencies)
    /\ exitCode = 2

StrictEnabled == options.strict \/ (has(config, "strict") /\ config.strict)

\* C15 (strict mode), as stated: with strict mode enabled by the flag or by the
\* config file, the scan exits 1 when an issue of any severity was found, for
\* every failOn configuration, and exits 0 only when no issue was found.
StrictModeAsStated ==
    (Exited /\ ScanEnded /\ StrictEnabled) =>
        /\ IssuesFound > 0 => exitCode = 1
        /\ exitCode = 0 => IssuesFound = 0

\* what holds of strict mode: with the --strict flag, JSON output and a failOn
\* list that names critical and high, any issue gives exit code 1
StrictFlagWithFailingLevels ==
    (Exited /\ ScanEnded /\ options.strict /\ options.json
        /\ {"critical", "high"} \subseteq FailLevels) =>
        /\ IssuesFound > 0 => exitCode = 1
        /\ exitCode = 0 => IssuesFound = 0

\* strict: true in the config file, JSON output, a medium issue, exit code 0
StrictModeWitness ==
    /\ Exited
    /\ ScanEnded
    /\ options.json
    /\ ~options.strict
    /\ has(config, "strict")
    /\ DefaultFailLevels
    /\ HasIssueAt("medium")
    /\ exitCode = 0

\* --strict with failOn: [], JSON output, a critical issue, exit code 0
StrictFlagEmptyFailOn ==
    /\ Exited
    /\ ScanEnded
    /\ options.json
    /\ options.strict
    /\ FailLevels = {}
    /\ HasIssueAt("critical")
    /\ exitCode = 0

LoadFailed == ~isNullish(loadState) /\ (loadState.db # "ok" \/ loadState.manifest # "ok")

\* C16 (configuration errors are fatal): when the threat database or the
\* manifest cannot be found, read or parsed, the scan ends with exit code 2
\* before any node is classified: no node map, no bucket, no JSON or text
\* result, no HTML report and no package removal.
ConfigErrorsFatal ==
    LoadFailed =>
        /\ pc \in {"start", "exited"}
        /\ pc = "start" => ENABLED LoadFailure
        /\ Exited => exitCode = 2
        /\ allDependencies = <<>>
        /\ isNullish(scanStats)
        /\ isNullish(results)
        /\ cursor = 0
        /\ isNullish(output)
        /\ effects = NoEffects

ConfigErrorsFatalWitness ==
    /\ LoadFailed
    /\ loadState.db = "unparseable"
    /\ loadState.manifest = "ok"
    /\ options.fix
    /\ options.report
    /\ Exited
    /\ exitCode = 2

----------------------------------------------------------------------------
(* Totality of the decoders, checked under SpecDecode *)

\* a text with no section or marker the decoder named in the call recognises
NoSectionOrMarker ==
    CASE lockText.decoder = "parseNpmLock" ->
             /\ lockText.content.json
             /\ ~isNullish(lockText.content.doc)
             /\ ~has(lockText.content.doc, "packages")
             /\ ~has(lockText.content.doc, "dependencies")
      [] lockText.decoder = "parsePnpmLock" ->
             \A i \in 1..Len(lockText.content.lines) :
                 lockText.content.lines[i].kind # "packages"
      [] lockText.decoder = "parseYarnLock" ->
             \A i \in 1..Len(lockText.content.lines) :
                 lockText.content.lines[i].kind # "decl"

NotJson == lockText.decoder = "parseNpmLock" /\ ~lockText.content.json

DecodesToEmptyMap == ~decoded.threw /\ decoded.packages = <<>>

\* C17 (decoders are total): each of the three lock decoders, of the command
\* line and of the web library, returns a map for every text and never raises;
\* a text without a recognisable section or marker gives the empty map, and a
\* text that is not JSON gives the empty map from the nested tree decoder.
DecodersTotalAsStated ==
    dpc = "done" =>
        /\ ~decoded.threw
        /\ NoSectionOrMarker => DecodesToEmptyMap
        /\ NotJson => DecodesToEmptyMap

\* what the decoders do: all but parseNpmLock of the web library are total;
\* that one raises 'Invalid package-lock.json format' for a text that is not
\* JSON or a document that cannot be walked
DecodersTotalButWebNpm ==
    dpc = "done" =>
        /\ ~Decoded("parseNpmLock", "web") =>
               /\ ~decoded.threw
               /\ NoSectionOrMarker => DecodesToEmptyMap
               /\ NotJson => DecodesToEmptyMap
        /\ Decoded("parseNpmLock", "web") =>
               /\ decoded.threw <=> npmTry(lockText.content, TRUE).threw
               /\ decoded.threw => decoded.message = "Invalid package-lock.json format"
               /\ NotJson => decoded.threw
               /\ NoSectionOrMarker => DecodesToEmptyMap

DecodersTotalWitness ==
    /\ Decoded("parseNpmLock", "web")
    /\ NotJson
    /\ lockText.content.empty
    /\ decoded.threw

DecodersTotalCliWitness ==
    /\ Decoded("parseNpmLock", "cli")
    /\ NotJson
    /\ DecodesToEmptyMap

----------------------------------------------------------------------------
(* Malformed entries of the nested tree dialect, checked under SpecDecode *)

NpmDocument ==
    /\ lockText.decoder = "parseNpmLock"
    /\ lockText.content.json
    /\ ~isNullish(lockText.content.doc)

\* the entries of the document's top level: those keyed by path, then those of
\* the nested-object variant, each with the name it spells (Null when none)
NpmTopEntries ==
    LET doc == lockText.content.doc
        byPath == IF has(doc, "packages")
                  THEN [ i \in 1..Len(doc.packages) |->
                           [ key  |-> IF doc.packages[i].path = <<>>
                                      THEN Null
                                      ELSE matchPackagePath(doc.packages[i].path),
                             info |-> doc.packages[i].info ] ]
                  ELSE <<>>
        byName == IF has(doc, "dependencies")
                  THEN [ i \in 1..Len(doc.dependencies) |->
                           [ key  |-> [ name |-> doc.dependencies[i].name ],
                             info |-> doc.dependencies[i].info ] ]
                  ELSE <<>>
    IN  byPath \o byName

MalformedAt(i) == ~isNullish(NpmTopEntries[i].key) /\ isNullish(NpmTopEntries[i].info)

WellFormedAt(i) == ~isNullish(NpmTopEntries[i].key) /\ ~isNullish(NpmTopEntries[i].info)

\* C25 (decoder skip-and-continue): when an entry of a nested tree lock
\* artifact is malformed (its value is null), parseNpmLock of the command
\* line raises nothing, and every well-formed entry of the document, those
\* that follow the malformed one included, is present in the returned map.
NpmSkipAndContinue ==
    (Decoded("parseNpmLock", "cli") /\ NpmDocument) =>
        /\ ~decoded.threw
        /\ \A i \in 1..Len(NpmTopEntries) :
               WellFormedAt(i) => mapHas(decoded.packages, NpmTopEntries[i].key.name)

\* what parseNpmLock does: nothing is raised, and the well-formed entries that
\* precede the first malformed one are in the returned map
NpmKeepsEntriesBefore ==
    (Decoded("parseNpmLock", "cli") /\ NpmDocument) =>
        /\ ~decoded.threw
        /\ \A i \in 1..Len(NpmTopEntries) :
               (WellFormedAt(i) /\ \A j \in 1..i : ~MalformedAt(j)) =>
                   mapHas(decoded.packages, NpmTopEntries[i].key.name)

\* a document whose first entry is null and whose second entry is well formed
NpmSkipAndContinueWitness ==
    /\ Decoded("parseNpmLock", "cli")
    /\ NpmDocument
    /\ Len(NpmTopEntries) = 2
    /\ MalformedAt(1)
    /\ WellFormedAt(2)

----------------------------------------------------------------------------
(* The four dependency maps of the manifest, checked under Spec *)

SectionOrder ==
    << "dependencies", "devDependencies", "peerDependencies", "optionalDependencies" >>

Declares(k, name) ==
    /\ has(packageJson, k)
    /\ \E i \in 1..Len(packageJson[k]) : packageJson[k][i].name = name

RangeIn(k, name) ==
    LET i == CHOOSE j \in 1..Len(packageJson[k]) : packageJson[k][j].name = name
    IN  packageJson[k][i].version

\* the last map, in the order of the merge, that declares the name
LastDeclaring(name) ==
    LET last == CHOOSE i \in 1..4 :
                    /\ Declares(SectionOrder[i], name)
                    /\ \A j \in (i + 1)..4 : ~Declares(SectionOrder[j], name)
    IN  SectionOrder[last]

LastDeclaredRange(name) == RangeIn(LastDeclaring(name), name)

LockHas(name) == ~isNullish(lockArtifact) /\ mapHas(lockArtifact.packages, name)

NodesNamed(name) == { i \in 1..Len(allDependencies) : allDependencies[i].name = name }

IssuesNamed(name) ==
    { i \in 1..Len(allIssues(results)) : allIssues(results)[i].package = name }

\* C18 (manifest merge precedence): the four dependency maps are merged in
\* the order runtime, development, peer, optional; a name declared in several
\* maps yields exactly one node, whose declared range is that of the last map
\* declaring it; the merge raises no error and the scan goes on over every
\* node, and a name declared only in the peer or optional map is scanned like
\* any other.
ManifestMergePrecedence ==
    GraphBuilt =>
        /\ { directDependencies[i].name : i \in 1..Len(directDependencies) } = ManifestNames
        /\ Len(directDependencies) = Cardinality(ManifestNames)
        /\ \A i \in 1..Len(directDependencies) :
               directDependencies[i].version = LastDeclaredRange(directDependencies[i].name)
        /\ scanStats.direct = Cardinality(ManifestNames)
        /\ \A n \in ManifestNames :
               /\ Cardinality(NodesNamed(n)) = 1
               /\ mapGet(allDependencies, n).isDirect
               /\ ~mapGet(allDependencies, n).isTransitive
               /\ ~LockHas(n) => mapGet(allDependencies, n).version = LastDeclaredRange(n)
        /\ pc = "exited" =>
               /\ cursor = Len(allDependencies) + 1
               /\ \A n \in ManifestNames :
                      ( /\ n \in db.knownMalicious.confirmed
                        /\ ~isTrusted(n, db, config)
                        /\ ~isIgnored(n, config) )
                      => Cardinality(IssuesNamed(n)) = 1

ManifestMergePrecedenceWitness ==
    /\ ScanEnded
    /\ Declares("dependencies", NameP)
    /\ Declares("optionalDependencies", NameP)
    /\ ~Declares("dependencies", NameScoped)
    /\ ~Declares("devDependencies", NameScoped)
    /\ Declares("peerDependencies", NameScoped)
    /\ ~Declares("optionalDependencies", NameScoped)
    /\ mapGet(allDependencies, NameP).version = SectionVersion.optionalDependencies
    /\ mapGet(allDependencies, NameScoped).version = SectionVersion.peerDependencies
    /\ Cardinality(IssuesNamed(NameScoped)) = 1
    /\ exitCode = 1

----------------------------------------------------------------------------
(* Specification of the pattern test: matchesPattern, isTrusted and        *)
(* isIgnored applied to a drawn name and a drawn pattern                   *)

MaxPatternLen == 3    \* characters in a drawn pattern

\* a drawn name has room for one character more than the longest pattern
MaxNameLen == MaxPatternLen + 1

NameAlphabet    == {"s", "S", "/"}
PatternAlphabet == {"s", "/", "*"}

\* the list the drawn pattern is put in
PatternPlaces == {"db.trustedPackages", "config.trustedPackages", "ignoreList", "config.ignore"}

listAt(place, here, patterns) == IF place = here THEN patterns ELSE <<>>

\* what precedes the drawn pattern in its list: nothing, an entry that is not
\* a string, or a lone '*'
LeadingPatterns == { <<>>, << <<NotAString>> >>, << <<"*">> >> }

InitPattern ==
    /\ mName \in SeqsUpTo(NameAlphabet, MaxNameLen)
    /\ mPattern \in SeqsUpTo(PatternAlphabet, MaxPatternLen) \cup {<<NotAString>>}
    /\ \E place \in PatternPlaces, lead \in LeadingPatterns :
         /\ place = "ignoreList" => \A i \in 1..Len(lead) : isString(lead[i])
         /\ place = "ignoreList" => isString(mPattern)
         /\ db = makeDb({}, listAt(place, "db.trustedPackages", lead \o <<mPattern>>), <<>>)
         /\ config = [ trustedPackages |->
                           listAt(place, "config.trustedPackages", lead \o <<mPattern>>),
                       ignore          |->
                           listAt(place, "config.ignore", lead \o <<mPattern>>) ]
         /\ ignoreList = listAt(place, "ignoreList", lead \o <<mPattern>>)
    /\ mResult = Null
    /\ mpc = "ready"
    /\ ClassifyIdle
    /\ VersionIdle
    /\ ScanIdle
    /\ DecodeIdle
    /\ BatchIdle

\* matchesPattern on the drawn pair, and the two list tests on the drawn name
MatchPattern ==
    /\ mpc = "ready"
    /\ LET trusted == db.trustedPackages.packages \o config.trustedPackages
           ignored == ignoreList \o config.ignore
       IN  mResult' =
             [ matches |-> isString(mPattern) /\ matchesPattern(mName, mPattern),
               trusted |-> ~someThrows(trusted, mName) /\ isTrusted(mName, db, config),
               ignored |-> ~someThrows(ignored, mName) /\ isIgnored(mName, config),
               threw   |-> { c \in {"matchesPattern", "isTrusted", "isIgnored"} :
                              \/ c = "matchesPattern" /\ ~isString(mPattern)
                              \/ c = "isTrusted" /\ someThrows(trusted, mName)
                              \/ c = "isIgnored" /\ someThrows(ignored, mName) } ]
    /\ mpc' = "done"
    /\ UNCHANGED <<mName, mPattern>>
    /\ UNCHANGED <<db, config, ignoreList, classifyVars, versionVars, scanVars, decodeVars, batchVars>>

NextPattern == MatchPattern

SpecPattern == InitPattern /\ [][NextPattern]_vars

----------------------------------------------------------------------------
(* Properties of the pattern test, checked under SpecPattern *)

\* the pattern is a namespace wildcard: a scope S followed by '/*'
IsWildcard(pattern) ==
    /\ Len(pattern) >= 2
    /\ pattern[Len(pattern) - 1] = "/"
    /\ pattern[Len(pattern)] = "*"

\* name starts with 'S/', the pattern less its final '*'
UnderNamespace(name, pattern) ==
    /\ Len(name) >= Len(pattern) - 1
    /\ \A i \in 1..(Len(pattern) - 1) : name[i] = pattern[i]

Matches(name, pattern) ==
    IF IsWildcard(pattern) THEN UnderNamespace(name, pattern) ELSE name = pattern

TrustedPatterns == db.trustedPackages.packages \o config.trustedPackages
IgnoredPatterns == ignoreList \o config.ignore

\* C19 (pattern matching): matchesPattern(name, 'S/*') holds exactly when name
\* starts with 'S/'; for a pattern without the trailing '/*' it holds exactly
\* when name equals the pattern, case-sensitively; the trusted list and the
\* ignore list are tested with the same function.  (Stated of the calls that
\* return; a list entry that is not a string makes the call raise.)
PatternMatching ==
    (mpc = "done" /\ mResult.threw = {}) =>
        /\ mResult.matches <=> Matches(mName, mPattern)
        /\ mResult.trusted <=>
               \E i \in 1..Len(TrustedPatterns) : Matches(mName, TrustedPatterns[i])
        /\ mResult.ignored <=>
               \E i \in 1..Len(IgnoredPatterns) : Matches(mName, IgnoredPatterns[i])

\* the bare scope and a namespace that has the scope as a prefix do not match,
\* a name under the namespace does
PatternMatchingWitness ==
    /\ mpc = "done"
    /\ mPattern = <<"s", "/", "*">>
    /\ \/ mName = <<"s">> /\ ~mResult.matches
       \/ mName = <<"s", "S", "/", "s">> /\ ~mResult.matches /\ ~mResult.trusted
    /\ TrustedPatterns = <<mPattern>>

PatternMatchingUnderNamespace ==
    /\ mpc = "done"
    /\ mPattern = <<"s", "/", "*">>
    /\ mName = <<"s", "/", "s">>
    /\ IgnoredPatterns = <<mPattern>>
    /\ mResult.matches
    /\ mResult.ignored
    /\ ~mResult.trusted

PatternMatchingCaseSensitive ==
    /\ mpc = "done"
    /\ mPattern = <<"s">>
    /\ mName = <<"S">>
    /\ ~mResult.matches

----------------------------------------------------------------------------
(* Malformed patterns, checked under SpecPattern *)

\* an exact name, or a namespace followed by '/*': a string whose only '*',
\* if any, is the last character of a trailing '/*'
ValidPattern(pattern) ==
    /\ isString(pattern)
    /\ \A i \in 1..Len(pattern) :
          pattern[i] = "*" => (i = Len(pattern) /\ IsWildcard(pattern))

AppliedTo(name, patterns) ==
    \E i \in 1..Len(patterns) : ValidPattern(patterns[i]) /\ Matches(name, patterns[i])

\* C26 (malformed patterns are skipped): a list entry that is not a valid
\* pattern ('*' in an unsupported place, or a value that is not a string)
\* matches no package name and raises no error, and the trusted and ignore
\* tests give what the valid patterns of their lists give.
MalformedPatternsSkipped ==
    mpc = "done" =>
        /\ mResult.threw = {}
        /\ ~ValidPattern(mPattern) => ~mResult.matches
        /\ mResult.trusted <=> AppliedTo(mName, TrustedPatterns)
        /\ mResult.ignored <=> AppliedTo(mName, IgnoredPatterns)

\* what the code does: the same whenever every entry reached is a string
MalformedStringsSkipped ==
    (mpc = "done" /\ mResult.threw = {}) =>
        /\ ~ValidPattern(mPattern) => ~mResult.matches
        /\ mResult.trusted <=> AppliedTo(mName, TrustedPatterns)
        /\ mResult.ignored <=> AppliedTo(mName, IgnoredPatterns)

\* an ignore list of the configuration file whose first entry is not a string
\* and whose second entry is the name tested
MalformedPatternsSkippedWitness ==
    /\ mpc = "done"
    /\ IgnoredPatterns = << <<NotAString>>, mName >>
    /\ ignoreList = <<>>
    /\ mName = <<"s">>

\* a lone '*' ahead of a namespace wildcard that the name is under
MalformedStringSkippedWitness ==
    /\ mpc = "done"
    /\ TrustedPatterns = << <<"*">>, <<"s", "/", "*">> >>
    /\ mName = <<"s", "/", "s">>
    /\ mResult.trusted
    /\ mResult.threw = {}

----------------------------------------------------------------------------
(* Properties of the aggregation, checked under Spec *)

Severities == {"critical", "high", "medium", "low"}

\* the loop over the node map is over
LoopOver == GraphBuilt /\ cursor = Len(allDependencies) + 1

BucketTotal ==
    Len(results.critical) + Len(results.high) + Len(results.medium) + Len(results.low)

NodeIndices == 1..Len(allDependencies)

IgnoredNodes == { i \in NodeIndices : isIgnored(allDependencies[i].name, config) }

TrustedNodes ==
    { i \in NodeIndices \ IgnoredNodes : isTrusted(allDependencies[i].name, db, config) }

\* the nodes some bucket holds an issue for
FlaggedNodes ==
    { i \in NodeIndices :
        \E b \in Severities : \E k \in 1..Len(results[b]) :
            results[b][k].package = allDependencies[i].name }

CleanNodes == NodeIndices \ (IgnoredNodes \cup TrustedNodes \cup FlaggedNodes)

\* the places (bucket, position) that hold an issue for the node
PlacesOf(i) ==
    { <<b, k>> \in Severities \X (1..Len(allDependencies)) :
        /\ k <= Len(results[b])
        /\ results[b][k].package = allDependencies[i].name }

\* C20 (aggregation partition): once the scan has gone over the merged graph,
\* every node is counted in exactly one of ignored, trusted, one severity
\* bucket or clean; each issue sits in the bucket its severity names;
\* totalIssues is the sum of the four bucket sizes; trusted and ignored nodes
\* are in no bucket and do not count toward totalIssues.
AggregationPartition ==
    LoopOver =>
        /\ scanStats.ignored = Cardinality(IgnoredNodes)
        /\ scanStats.trusted = Cardinality(TrustedNodes)
        /\ BucketTotal = Cardinality(FlaggedNodes)
        /\ \A i \in FlaggedNodes : Cardinality(PlacesOf(i)) = 1
        /\ FlaggedNodes \cap (IgnoredNodes \cup TrustedNodes) = {}
        /\ scanStats.ignored + scanStats.trusted + BucketTotal + Cardinality(CleanNodes)
             = Len(allDependencies)
        /\ \A b \in Severities : \A k \in 1..Len(results[b]) :
               /\ results[b][k].severity = b
               /\ results[b][k].package \in NodeNames
        /\ ~isNullish(output) =>
               /\ output.totalIssues = BucketTotal
               /\ has(output, "packagesIgnored") =>
                      /\ output.packagesIgnored = Cardinality(IgnoredNodes)
                      /\ output.packagesTrusted = Cardinality(TrustedNodes)
                      /\ output.results = results

AggregationPartitionWitness ==
    /\ ScanEnded
    /\ options.json
    /\ Len(allDependencies) = 3
    /\ Cardinality(IgnoredNodes) = 1
    /\ Cardinality(TrustedNodes) = 1
    /\ Len(results.critical) = 1
    /\ output.totalIssues = 1

AggregationPartitionClean ==
    /\ ScanEnded
    /\ options.json
    /\ Len(results.medium) = 1
    /\ Cardinality(CleanNodes) = 1
    /\ output.totalIssues = 1

----------------------------------------------------------------------------
(* Shape of the database document, checked under Spec *)

\* the database file parses as JSON but lacks a required field
IncompleteDatabase ==
    /\ ~isNullish(loadState)
    /\ loadState.db = "ok"
    /\ loadState.dbFields # RequiredFields

\* C27 (database shape is validated at load): a database document that parses
\* as JSON but does not supply a non-empty version and a non-empty last-updated
\* string is rejected as a configuration error: the scan exits with code 2 and
\* produces no scan result.
DatabaseShapeValidated ==
    IncompleteDatabase =>
        /\ Exited => exitCode = 2
        /\ isNullish(scanStats)
        /\ isNullish(results)
        /\ isNullish(output)

\* what the loader does: a document that parses is used as it is
DatabaseShapeIgnored ==
    (IncompleteDatabase /\ loadState.manifest = "ok") =>
        /\ loadCompromisedDb(loadState) = db
        /\ (ScanEnded /\ options.json) => (exitCode = DictatedStatus /\ ~isNullish(output))

\* a scan with a database that has neither field which classified the
\* project's packages, printed its result and exited 1
DatabaseShapeValidatedWitness ==
    /\ IncompleteDatabase
    /\ loadState.dbFields = {}
    /\ ScanEnded
    /\ options.json
    /\ Len(results.critical) = 1
    /\ exitCode = 1

----------------------------------------------------------------------------
(* Properties of the package removal (--fix, --yes), checked under Spec *)

\* the issues scan() hands to fixPackages, and the packages they name
FixIssues == IF isNullish(results) THEN <<>> ELSE results.critical \o results.high

FixNames == [ i \in 1..Len(FixIssues) |-> FixIssues[i].package ]

\* the removal command is run only with --fix and --yes and a critical or high
\* issue, it names the packages of those issues, and whether it fails or not
\* the exit code is the one the buckets give
RemovalOnlyConfirmed ==
    effects.fix.removed =>
        /\ options.fix
        /\ options.yes
        /\ Len(FixIssues) >= 1
        /\ effects.fix.command = FixNames
        /\ exitCode = exitStatus(results, config, options)

\* with --fix alone nothing is removed
FixAloneRemovesNothing ==
    (options.fix /\ ~options.yes) =>
        /\ ~effects.fix.removed
        /\ effects.fix.command = <<>>
        /\ effects.fix.listed \in {<<>>, FixNames}

\* C23: removal needs confirmation.  A removal command is run only when both
\* --fix and --yes are given and a critical or high issue was found; it names
\* exactly the packages of the critical and high issues; a failing command
\* leaves the exit code alone; and a human-readable scan run with --fix alone
\* that found such issues ends having listed their packages and removed
\* nothing.
RemovalNeedsConfirmation ==
    /\ RemovalOnlyConfirmed
    /\ FixAloneRemovesNothing
    /\ (ScanEnded /\ options.fix /\ ~options.yes /\ ~options.json /\ Len(FixIssues) >= 1) =>
           /\ effects.fix.listed = FixNames
           /\ exitCode = DictatedStatus

\* a human-readable scan with --fix alone that found a critical issue has ended
RemovalNeedsConfirmationWitness ==
    /\ ScanEnded
    /\ options.fix
    /\ ~options.yes
    /\ ~options.json
    /\ Len(results.critical) >= 1

\* a confirmed removal whose command failed, after which the scan exits 1
RemovalFailedWitness ==
    /\ ScanEnded
    /\ effects.fix.removed
    /\ effects.fix.failed
    /\ Len(effects.fix.command) >= 1
    /\ exitCode = 1

----------------------------------------------------------------------------
(* Properties of the command-line flags, checked under Spec *)

\* the project has a lock file that can be read and that records packages
LockUsable ==
    /\ ~isNullish(lockArtifact)
    /\ lockArtifact.readable
    /\ Len(lockArtifact.packages) > 0

\* the scan ran in deep mode: it consulted the lock file for its nodes
DeepMode == GraphBuilt /\ ~isNullish(lockFile) /\ scanStats.lockFileType # NoFile

ConfigScanDeep == has(config, "scanDeep") /\ config.scanDeep

\* C24: the short flag -d enables deep scanning as --deep does.  Whenever the
\* dependency graph of a project with a usable lock file has been built, the
\* scan ran in deep mode exactly if the arguments contain --deep or -d or the
\* configuration sets scanDeep.
ShortDeepFlag ==
    (GraphBuilt /\ LockUsable) =>
        (DeepMode <=> ("--deep" \in args \/ "-d" \in args \/ ConfigScanDeep))

\* what the options object gives: only --deep and scanDeep enable deep mode
LongDeepFlagOnly ==
    (GraphBuilt /\ LockUsable) => (DeepMode <=> ("--deep" \in args \/ ConfigScanDeep))

\* a scan started with -d on a project whose lock file records a package the
\* manifest does not declare
ShortDeepFlagWitness ==
    /\ GraphBuilt
    /\ LockUsable
    /\ "-d" \in args
    /\ "--deep" \notin args
    /\ ~ConfigScanDeep
    /\ \E i \in 1..Len(lockArtifact.packages) :
          lockArtifact.packages[i].name \notin ManifestNames

----------------------------------------------------------------------------
(* Names recorded at several versions, checked under Spec *)

RecordsEntries == ~isNullish(lockArtifact) /\ has(lockArtifact, "entries")

\* the versions the lock file records for the name
RecordedVersions(name) ==
    { lockArtifact.entries[i].version :
        i \in { k \in 1..Len(lockArtifact.entries) : lockArtifact.entries[k].name = name } }

\* a campaign lists the name, and a recorded version of the name is in the
\* campaign's affected-versions entry for it
AffectedVersionRecorded(name) ==
    \E i \in 1..Len(db.campaigns) :
        /\ name \in db.campaigns[i].packages
        /\ ~isNullish(affectedVersionsOf(db.campaigns[i], name))
        /\ \E v \in RecordedVersions(name) :
              cleanVersion(v) \in affectedVersionsOf(db.campaigns[i], name).list

ReportedSafe(name) ==
    \E k \in 1..Len(results.low) :
        /\ results.low[k].package = name
        /\ has(results.low[k], "safeVersion")
        /\ results.low[k].safeVersion

\* the version the scan classified the name at
ScannedVersion(name) ==
    LET i == CHOOSE k \in 1..Len(allDependencies) : allDependencies[k].name = name
    IN  allDependencies[i].version

\* C29 (no affected version is hidden by de-duplication): if the lock file
\* records a name at several versions and one of them is in the
\* affected-versions entry of a campaign that lists the name, the deep scan
\* does not report the name with the low 'safe version' outcome.
NoAffectedVersionHidden ==
    (LoopOver /\ DeepMode /\ RecordsEntries) =>
        \A name \in Names :
            (Cardinality(RecordedVersions(name)) >= 2 /\ AffectedVersionRecorded(name)) =>
                ~ReportedSafe(name)

\* what the scan does: the name is classified at the one version the decoder
\* kept, the first recorded (pnpm, yarn) or the last (npm), and is reported
\* safe exactly if that version is not an affected one
KeptVersionDecides ==
    (LoopOver /\ DeepMode /\ RecordsEntries) =>
        LET kept == IF lockArtifact.type = "npm"
                    THEN lockArtifact.entries[Len(lockArtifact.entries)].version
                    ELSE lockArtifact.entries[1].version
        IN  /\ ScannedVersion(NameP) = kept
            /\ ReportedSafe(NameP) <=> kept # V1

\* a pnpm lock file that records p at the safe version 2 and then at the
\* affected version 1, scanned in deep mode
NoAffectedVersionHiddenWitness ==
    /\ LoopOver
    /\ DeepMode
    /\ RecordsEntries
    /\ lockArtifact.type = "pnpm"
    /\ lockArtifact.entries[1].version = V2
    /\ lockArtifact.entries[2].version = V1
    /\ AffectedVersionRecorded(NameP)

----------------------------------------------------------------------------
(* Properties of the flat block decoder parseYarnLock, checked under SpecDecode *)

YarnDecoded == dpc = "done" /\ lockText.decoder = "parseYarnLock"

YarnText == lockText.content.lines

\* an unindented line that is neither blank nor a comment: a header
IsHeader(j) == ~YarnText[j].indented /\ YarnText[j].kind \notin {"blank", "comment"}

IsVersionLine(k) == YarnText[k].kind = "version"

\* the header a line stands under: the last header before it, 0 when there is none
HeaderOf(k) ==
    IF \E j \in 1..(k - 1) : IsHeader(j)
    THEN CHOOSE j \in 1..(k - 1) :
             IsHeader(j) /\ \A m \in (j + 1)..(k - 1) : ~IsHeader(m)
    ELSE 0

Aliases(j) == IF j = 0 THEN {} ELSE { YarnText[j].names[i] : i \in 1..Len(YarnText[j].names) }

\* the first version line read after its header
FollowsHeader(k) ==
    /\ IsVersionLine(k)
    /\ \A m \in (HeaderOf(k) + 1)..(k - 1) : ~IsVersionLine(m)

YarnNames == UNION { Aliases(j) : j \in 1..Len(YarnText) }

\* the version lines that stand under a header naming the alias
CommitsOf(name) ==
    { k \in 1..Len(YarnText) : IsVersionLine(k) /\ name \in Aliases(HeaderOf(k)) }

FirstCommitOf(name) == CHOOSE k \in CommitsOf(name) : \A m \in CommitsOf(name) : k <= m

YarnHeaderWithoutVersion ==
    /\ YarnDecoded
    /\ Len(YarnText) = 3
    /\ Aliases(1) = { <<"a">>, <<"@s", "b">> }
    /\ Aliases(2) = { <<"a">> }
    /\ IsVersionLine(3)
    /\ mapHas(decoded.packages, <<"a">>)
    /\ ~mapHas(decoded.packages, <<"@s", "b">>)

----------------------------------------------------------------------------
(* The multi-project orchestrator scripts/scan-all.js: scanProject and main. *)
(*                                                                         *)
(* A JavaScript value that may be a number, an object or a string is a     *)
(* record: [num |-> n], [object |-> ...] or [str |-> pieces]. The exit     *)
(* code a close event carries is written -1 when it is null (the child was *)
(* ended by a signal) and is the negative errno when the spawn failed.     *)

Num(n) == [ num |-> n ]
Str(pieces) == [ str |-> pieces ]
isNum(v) == has(v, "num")

KilledCode == -1
SpawnErrno == -2

Digits == << "0", "1", "2", "3", "4", "5", "6", "7", "8", "9" >>

\* String(value), as the pieces of the text
toString(v) ==
    IF isNum(v) THEN << IF v.num < 10 THEN Digits[v.num + 1] ELSE "n" >>
    ELSE IF has(v, "str") THEN v.str
    ELSE << "[object Object]" >>

\* the operator + of the reduce callbacks: a sum of two numbers, otherwise the
\* concatenation of the two operands as strings
jsPlusConcat(a, b) == Str(toString(a) \o toString(b))

jsPlus(a, b) == IF isNum(a) /\ isNum(b) THEN Num(a.num + b.num) ELSE jsPlusConcat(a, b)

\* value || 0
orZero(v) == IF isNum(v) /\ v.num = 0 THEN Num(0) ELSE v

\* a property that may be missing, || 0
propOrZero(obj, key) == IF has(obj, key) THEN orZero(obj[key]) ELSE Num(0)

zeroResult(project, code, error) ==
    [ project         |-> project,
      exitCode        |-> code,
      error           |-> error,
      packagesScanned |-> Num(0),
      totalIssues     |-> 0,
      critical        |-> 0,
      high            |-> 0,
      medium          |-> 0,
      low             |-> 0 ]

\* JSON.parse(stdout) and the reads of the parsed document raise
parseThrows(stdout) == ~stdout.json \/ isNullish(stdout.doc)

bucketLength(doc, level) ==
    IF has(doc, "results") /\ has(doc.results, level) THEN doc.results[level] ELSE 0

\* proc.on('close', code => ...): the result the promise is resolved with
scanProjectClose(project, child) ==
    IF parseThrows(child.stdout)
    THEN zeroResult(project, child.code,
                    IF child.code = 2 THEN [ message |-> "Configuration error" ]
                    ELSE IF child.stderr # "" THEN [ message |-> child.stderr ]
                    ELSE Null)
    ELSE LET parsed == child.stdout.doc
         IN  [ project         |-> project,
               exitCode        |-> child.code,
               error           |-> Null,
               packagesScanned |-> propOrZero(parsed, "packagesScanned"),
               totalIssues     |-> IF has(parsed, "totalIssues") THEN parsed.totalIssues ELSE 0,
               critical        |-> bucketLength(parsed, "critical"),
               high            |-> bucketLength(parsed, "high"),
               medium          |-> bucketLength(parsed, "medium"),
               low             |-> bucketLength(parsed, "low") ]

\* proc.on('error', error => ...)
scanProjectError(project) == zeroResult(project, 2, [ message |-> "spawn failed" ])

\* resolve(value): a promise already resolved keeps its value
resolve(ps, i, value) == IF isNullish(ps[i]) THEN [ ps EXCEPT ![i] = value ] ELSE ps

\* the results in the order the promises were resolved
promiseAllBySettlement(ps, order) == [ k \in 1..Len(order) |-> ps[order[k]] ]

\* Promise.all(projects.map(scanProject)): the values in the order of the array
promiseAll(ps, order) == [ i \in 1..Len(ps) |-> ps[i] ]

truthy(error) == ~isNullish(error) /\ error.message # ""

count(rs, P(_)) == Cardinality({ i \in 1..Len(rs) : P(rs[i]) })

RECURSIVE sumOf(_, _, _)
sumOf(rs, i, key) == IF i > Len(rs) THEN 0 ELSE rs[i][key] + sumOf(rs, i + 1, key)

\* results.reduce((sum, r) => sum + r.packagesScanned, 0), from result i on
RECURSIVE reducePackagesScanned(_, _, _)
reducePackagesScanned(rs, i, sum) ==
    IF i > Len(rs) THEN sum
    ELSE reducePackagesScanned(rs, i + 1, jsPlus(sum, rs[i].packagesScanned))

\* main(): the totals object
calculateTotals(rs) ==
    LET isClean(r) == r.totalIssues = 0 /\ ~truthy(r.error)
        hasIssues(r) == r.totalIssues > 0
        hasError(r) == truthy(r.error)
    IN  [ projects        |-> Len(rs),
          clean           |-> count(rs, isClean),
          withIssues      |-> count(rs, hasIssues),
          errors          |-> count(rs, hasError),
          packagesScanned |-> reducePackagesScanned(rs, 1, Num(0)),
          totalIssues     |-> sumOf(rs, 1, "totalIssues"),
          critical        |-> sumOf(rs, 1, "critical"),
          high            |-> sumOf(rs, 1, "high"),
          medium          |-> sumOf(rs, 1, "medium"),
          low             |-> sumOf(rs, 1, "low") ]

----------------------------------------------------------------------------
(* Specification of the orchestrator: main() over drawn projects and children *)

MaxProjects == 2    \* projects found or listed

NoText == [ json |-> FALSE ]

\* the --json document of a child scan: packagesScanned is a number in the
\* v1 output format and an object in the v2 format
scanDocument(scanned, level) ==
    [ json |-> TRUE,
      doc  |-> [ packagesScanned |-> scanned,
                 totalIssues     |-> IF level = "none" THEN 0 ELSE 1,
                 results         |-> [ l \in {"critical", "high", "medium", "low"} |->
                                         IF l = level THEN 1 ELSE 0 ] ] ]

ScannedObject == [ object |-> "packagesScanned", total |-> 2, direct |-> 2, transitive |-> 0 ]

ChildBehaviours ==
    { [ spawns |-> FALSE, code |-> SpawnErrno, stdout |-> NoText, stderr |-> "" ],
      [ spawns |-> TRUE, code |-> KilledCode, stdout |-> NoText, stderr |-> "" ],
      [ spawns |-> TRUE, code |-> 2, stdout |-> NoText, stderr |-> "Error" ],
      [ spawns |-> TRUE, code |-> 0, stdout |-> NoText, stderr |-> "" ],
      [ spawns |-> TRUE, code |-> 1, stdout |-> NoText, stderr |-> "Error" ],
      [ spawns |-> TRUE, code |-> 0, stdout |-> [ json |-> TRUE, doc |-> Null ], stderr |-> "" ],
      [ spawns |-> TRUE, code |-> 0, stdout |-> scanDocument(Num(2), "none"), stderr |-> "" ],
      [ spawns |-> TRUE, code |-> 0, stdout |-> scanDocument(Num(2), "medium"), stderr |-> "" ],
      [ spawns |-> TRUE, code |-> 0, stdout |-> scanDocument(ScannedObject, "none"),
        stderr |-> "" ],
      [ spawns |-> TRUE, code |-> 1, stdout |-> scanDocument(ScannedObject, "critical"),
        stderr |-> "" ] }

ProjectPaths == << "/p1", "/p2", "/p3", "/p4" >>

InitBatch ==
    /\ \E n \in 0..MaxProjects :
         /\ projects = SubSeq(ProjectPaths, 1, n)
         /\ children \in [ 1..n -> ChildBehaviours ]
         /\ delivered = [ i \in 1..n |-> {} ]
         /\ promises = [ i \in 1..n |-> Null ]
    /\ parallel \in BOOLEAN
    /\ settled = <<>>
    /\ batchResults = <<>>
    /\ totals = Null
    /\ batchExit = -1
    /\ bpc = "start"
    /\ DatabaseIdle
    /\ ClassifyIdle
    /\ VersionIdle
    /\ ScanIdle
    /\ DecodeIdle
    /\ PatternIdle

batchFrame ==
    UNCHANGED <<db, config, ignoreList, classifyVars, versionVars, scanVars, decodeVars,
                patternVars>>

\* main(): if (projects.length === 0) process.exit(0)
NoProjects ==
    /\ bpc = "start"
    /\ Len(projects) = 0
    /\ bpc' = "exited"
    /\ batchExit' = 0
    /\ UNCHANGED <<projects, parallel, children, delivered, promises, settled, batchResults,
                   totals>>
    /\ batchFrame

\* main(): the children are started, all at once with --parallel, otherwise
\* each one when the result of the one before it has been pushed
StartBatch ==
    /\ bpc = "start"
    /\ Len(projects) > 0
    /\ bpc' = "scanning"
    /\ UNCHANGED <<projects, parallel, children, delivered, promises, settled, batchResults,
                   totals, batchExit>>
    /\ batchFrame

\* child i has been started and main() has not ended the process
isSpawned(i) ==
    /\ bpc \notin {"start", "exited"}
    /\ parallel \/ \A j \in 1..(i - 1) : ~isNullish(promises[j])

\* an event handler of scanProject resolves the promise of project i; without
\* --parallel the loop of main() then pushes the result
settle(i, value) ==
    /\ promises' = resolve(promises, i, value)
    /\ IF isNullish(promises[i])
       THEN /\ settled' = Append(settled, i)
            /\ batchResults' = IF parallel THEN batchResults ELSE Append(batchResults, value)
       ELSE UNCHANGED <<settled, batchResults>>

\* the close event of child i
ChildClose ==
    \E i \in 1..Len(projects) :
        /\ isSpawned(i)
        /\ "close" \notin delivered[i]
        /\ delivered' = [ delivered EXCEPT ![i] = @ \cup {"close"} ]
        /\ settle(i, scanProjectClose(projects[i], children[i]))
        /\ UNCHANGED <<projects, parallel, children, totals, batchExit, bpc>>
        /\ batchFrame

\* the error event of a child that could not be spawned; the runtime may
\* deliver it before or after the close event
ChildError ==
    \E i \in 1..Len(projects) :
        /\ isSpawned(i)
        /\ ~children[i].spawns
        /\ "error" \notin delivered[i]
        /\ delivered' = [ delivered EXCEPT ![i] = @ \cup {"error"} ]
        /\ settle(i, scanProjectError(projects[i]))
        /\ UNCHANGED <<projects, parallel, children, totals, batchExit, bpc>>
        /\ batchFrame

\* results = await Promise.all(projects.map(scanProject))
Gather ==
    /\ bpc = "scanning"
    /\ parallel
    /\ \A i \in 1..Len(projects) : ~isNullish(promises[i])
    /\ batchResults' = promiseAll(promises, settled)
    /\ bpc' = "gathered"
    /\ UNCHANGED <<projects, parallel, children, delivered, promises, settled, totals,
                   batchExit>>
    /\ batchFrame

\* the loop of main() without --parallel has pushed the last result
LoopDone ==
    /\ bpc = "scanning"
    /\ ~parallel
    /\ Len(batchResults) = Len(projects)
    /\ bpc' = "gathered"
    /\ UNCHANGED <<projects, parallel, children, delivered, promises, settled, batchResults,
                   totals, batchExit>>
    /\ batchFrame

\* main(): the totals, the summary and the exit code
Summarize ==
    /\ bpc = "gathered"
    /\ totals' = calculateTotals(batchResults)
    /\ batchExit' = IF calculateTotals(batchResults).critical > 0
                       \/ calculateTotals(batchResults).high > 0
                    THEN 1 ELSE 0
    /\ bpc' = "exited"
    /\ UNCHANGED <<projects, parallel, children, delivered, promises, settled, batchResults>>
    /\ batchFrame

NextBatch ==
    NoProjects \/ StartBatch \/ ChildClose \/ ChildError \/ Gather \/ LoopDone \/ Summarize

SpecBatch == InitBatch /\ [][NextBatch]_vars

\* every child process ends, and the event loop runs the handlers that are due
SpecBatchFair == SpecBatch /\ WF_vars(NextBatch)

----------------------------------------------------------------------------
(* Properties of the orchestrator, checked under SpecBatchFair and SpecBatch *)

\* the child of project i failed to spawn, was killed, or printed no parseable result
FailingChild(i) ==
    \/ ~children[i].spawns
    \/ children[i].code = KilledCode
    \/ ~children[i].stdout.json
    \/ isNullish(children[i].stdout.doc)

ZeroCount(r) ==
    /\ r.packagesScanned = Num(0)
    /\ r.totalIssues = 0
    /\ r.critical = 0 /\ r.high = 0 /\ r.medium = 0 /\ r.low = 0

\* the figures the child of project i printed
ReportsOwnChild(r, i) ==
    LET doc == children[i].stdout.doc
    IN  /\ r.exitCode = children[i].code
        /\ r.packagesScanned = doc.packagesScanned
        /\ r.totalIssues = doc.totalIssues
        /\ \A l \in {"critical", "high", "medium", "low"} : r[l] = doc.results[l]

ResultsIsolated ==
    /\ Len(batchResults) = Len(projects)
    /\ \A i \in 1..Len(projects) :
           /\ batchResults[i].project = projects[i]
           /\ FailingChild(i) => ZeroCount(batchResults[i])
           /\ ~FailingChild(i) => ReportsOwnChild(batchResults[i], i)

ReportedScanned(i) ==
    IF FailingChild(i) THEN 0
    ELSE LET scanned == children[i].stdout.doc.packagesScanned
         IN  IF isNum(scanned) THEN scanned.num ELSE scanned.total

RECURSIVE SumReported(_)
SumReported(i) == IF i = 0 THEN 0 ELSE ReportedScanned(i) + SumReported(i - 1)

Summarized == bpc = "exited" /\ ~isNullish(totals)

PrintsScannedObject(i) ==
    ~FailingChild(i) /\ ~isNum(children[i].stdout.doc.packagesScanned)

TotalsPartition == totals.clean + totals.withIssues + totals.errors = Len(projects)

\* C28 (batch totals are numeric sums): in the orchestrator's summary,
\* totals.packagesScanned is the integer sum over all projects of the number
\* of packages each child scan reported as scanned, and totals.clean +
\* totals.withIssues + totals.errors equals the number of projects scanned.
BatchTotalsAsStated ==
    Summarized =>
        /\ isNum(totals.packagesScanned)
        /\ totals.packagesScanned.num = SumReported(Len(projects))
        /\ TotalsPartition

\* what main() computes: the three counts partition the projects, and the sum
\* is numeric as long as no child printed packagesScanned as an object
BatchTotalsOfNumbers ==
    Summarized =>
        /\ TotalsPartition
        /\ totals.projects = Len(projects)
        /\ (\A i \in 1..Len(projects) : ~PrintsScannedObject(i)) =>
               /\ isNum(totals.packagesScanned)
               /\ totals.packagesScanned.num = SumReported(Len(projects))
        /\ (\E i \in 1..Len(projects) : PrintsScannedObject(i)) =>
               has(totals.packagesScanned, "str")

\* one project whose child printed the v2 document: the total is the text
\* "0[object Object]"
BatchTotalsWitness ==
    /\ Summarized
    /\ Len(projects) = 1
    /\ PrintsScannedObject(1)
    /\ totals.packagesScanned = Str(<< "0", "[object Object]" >>)
    /\ totals.clean = 1

====
